---- MODULE Spec2Model ----
(***************************************************************************)
(* Client and server channel bootstrap of aws-c-io                         *)
(* (source/channel_bootstrap.c, include/aws/io/channel.h).                 *)
(*                                                                         *)
(* The client part models one connection request: the call into           *)
(* s_new_client_channel, the resolver callback, the attempt tasks, the     *)
(* connect completions, the channel callbacks and the TLS negotiation      *)
(* result, each as one action translated from the handler's code.          *)
(* The event loop, the resolver, the sockets, the channel and the TLS      *)
(* handler are the environment: their results are inputs drawn with \E.    *)
(* The server part models one listener and the connections it accepts.    *)
(* The release part models aws_client/server_bootstrap_release and the     *)
(* thread-local cleanup tasks it waits for.  The channel part models one   *)
(* channel's setup, message passing and shutdown as channel.h and the      *)
(* specification describe them.                                            *)
(***************************************************************************)
EXTENDS Integers, Sequences, FiniteSets, TLC

(* ------------------------------ bounds -------------------------------- *)

\* largest number of addresses the resolver returns for one request
MaxAddrs == 2

\* largest number of accept events reported to the listener
MaxConns == 2

\* largest number of event loops in the bootstrap's event loop group
MaxLoops == 2

\* largest number of slots of a channel's pipeline
MaxSlots == 2

\* largest initial read window of a handler, and longest message payload but one
MaxWindow == 2

\* largest number of aws_channel_shutdown calls, and of messages sent, on one channel
MaxCalls == 2
\* connections the listener accepts where a listener is modelled next to a client request
MaxAccepted == 1
\* longest list of addresses the resolver returns in the model of the 8-bit counters
MaxResolved == 257

(* --------------------------- program constants ------------------------ *)

\* width of the uint8_t counters addresses_count and failed_count
UINT8_MOD == 256

AWS_OP_SUCCESS == "AWS_OP_SUCCESS"
AWS_ERROR_UNKNOWN == "AWS_ERROR_UNKNOWN"

\* nonzero error codes the collaborators raise (aws_last_error(), connect
\* and negotiation results, shutdown reasons)
ErrorCodes == {"AWS_ERROR_OOM", "AWS_IO_SOCKET_TIMEOUT"}

NULL == "NULL"
CHANNEL == "channel"

AWS_SOCKET_IPV4 == "AWS_SOCKET_IPV4"
AWS_SOCKET_IPV6 == "AWS_SOCKET_IPV6"
AWS_SOCKET_LOCAL == "AWS_SOCKET_LOCAL"
AWS_SOCKET_STREAM == "AWS_SOCKET_STREAM"
AWS_SOCKET_DGRAM == "AWS_SOCKET_DGRAM"
AWS_ADDRESS_RECORD_TYPE_A == "A"
AWS_ADDRESS_RECORD_TYPE_AAAA == "AAAA"
AWS_TASK_STATUS_RUN_READY == "RUN_READY"
AWS_TASK_STATUS_CANCELED == "CANCELED"

SocketDomains == {AWS_SOCKET_IPV4, AWS_SOCKET_IPV6, AWS_SOCKET_LOCAL}
SocketTypes == {AWS_SOCKET_STREAM, AWS_SOCKET_DGRAM}
RecordTypes == {AWS_ADDRESS_RECORD_TYPE_A, AWS_ADDRESS_RECORD_TYPE_AAAA}
TaskStatuses == {AWS_TASK_STATUS_RUN_READY, AWS_TASK_STATUS_CANCELED}

AddrIdx == 1..MaxAddrs
ConnIdx == 1..MaxConns
LoopIdx == 1..MaxLoops
SlotIdx == 1..MaxSlots

AWS_CHANNEL_DIR_READ == "AWS_CHANNEL_DIR_READ"
AWS_CHANNEL_DIR_WRITE == "AWS_CHANNEL_DIR_WRITE"
AWS_IO_CHANNEL_READ_WOULD_EXCEED_WINDOW == "AWS_IO_CHANNEL_READ_WOULD_EXCEED_WINDOW"

\* a thread that is not an event loop of the group; loop j's thread is j
USER_THREAD == 0

(* ------------------------------- state -------------------------------- *)

VARIABLES
    ret,                \* result of the call: "none", "OK", "ERR"
    opts,               \* outgoing_options.domain of the call, and where the call failed
    cs,                 \* client_connection_args, its bootstrap, the user's callbacks log
    resolver_pc,        \* "idle", "pending", "scheduling", "done"
    host_addresses,     \* record types of the resolved addresses
    sched_i,            \* position of the scheduling loop of s_on_host_resolved
    attempt,            \* per address: state of its attempt task / connect
    sock,               \* per address: state of its outgoing socket
    recorded,           \* addresses given to aws_host_resolver_record_connection_failure
    channel,            \* the winner's channel
    channel_socket,     \* channel_data.socket: index of the retained socket, 0 if none
    slots,              \* the channel's slots, left to right
    tls,                \* the TLS negotiation: state "none", "negotiating", "negotiated", "failed",
                        \* "failed_late" (the channel was already shutting down); err_code: its result
    resolve_error       \* the error the resolver reported, AWS_OP_SUCCESS if none

VARIABLES
    srv_ret,            \* result of the listener call: "none", "listener", "NULL"
    srv,                \* server_connection_args, its bootstrap, the destroy callback log
    listener,           \* the listener socket: "none", "accepting", "destroy_scheduled", "cleaned_up"
    conns               \* per accept event: server_channel_data, its channel and socket, the user's log

VARIABLES
    rel,                \* the thread inside aws_client/server_bootstrap_release: its position, its
                        \* mutex, the event loop group, the bootstrap it releases
    el_task             \* per event loop: the cleanup task scheduled on it and its task data

serverVars == <<srv_ret, srv, listener, conns>>

VARIABLES
    aws_channel,        \* one channel: its setup and shutdown state, the callbacks it made
    handlers,           \* per slot, left to right: window_size and the handler's shutdown progress
    msg,                \* the last aws_channel_slot_send_message call and its outcome
    hold                \* the channel's hold count, whether aws_channel_destroy was called, the free

releaseVars == <<rel, el_task>>

VARIABLES
    wide                \* a request over a long address list: the list's length, the attempt
                        \* tasks still to run, and its client_connection_args

countVars == <<wide>>

VARIABLES
    tramp               \* the TLS callbacks of one channel: whose side it is, which callbacks the
                        \* user supplied, and the calls made by the TLS handler, the trampolines,
                        \* and the bootstrap, in order

tlsVars == <<tramp>>

channelVars == <<aws_channel, handlers, msg, hold>>

clientVars == <<ret, opts, cs, resolver_pc, host_addresses, sched_i, attempt, sock,
                recorded, channel, channel_socket, slots, tls, resolve_error>>

(* ------------------- client_connection_args helpers ------------------- *)

\* a handler dereferences args: a read of freed memory is recorded
Touch(s) ==
    IF s.mem = "freed" THEN [s EXCEPT !.uaf = TRUE] ELSE s

\* the bootstrap is dereferenced: a use after s_client_bootstrap_destroy_impl is recorded
TouchBootstrap(s) ==
    IF s.bootstrap_destroyed > 0 THEN [s EXCEPT !.bootstrap_uaf = TRUE] ELSE s

s_client_bootstrap_acquire(s) ==
    [TouchBootstrap(s) EXCEPT !.bootstrap_ref_count = @ + 1]

s_client_bootstrap_release(s) ==
    [TouchBootstrap(s) EXCEPT !.bootstrap_ref_count = @ - 1,
                              !.bootstrap_destroyed = @ + (IF s.bootstrap_ref_count = 1 THEN 1 ELSE 0)]

s_client_connection_args_acquire(s) ==
    LET t == [s EXCEPT !.ref_count = @ + 1] IN
    IF s.ref_count = 0 THEN s_client_bootstrap_acquire(t) ELSE t

\* variant: the last release only decrements, nothing is freed or handed back
s_client_connection_args_release_NoFree(s) ==
    [s EXCEPT !.ref_count = @ - 1]

\* ref_count is uint32_t; a negative value stands for the wrapped value 2^32 + ref_count
s_client_connection_args_release(s) ==
    LET a == IF s.ref_count > 0 THEN s ELSE [s EXCEPT !.asserts = @ \cup {"ref_count > 0"}]
        t == [a EXCEPT !.ref_count = @ - 1] IN
    IF t.ref_count = 0
    THEN [s_client_bootstrap_release(t) EXCEPT !.mem = "freed", !.args_freed = @ + 1]
    ELSE t

\* variant: the callback keeps the reference it was handed
s_connection_args_setup_callback_NoRelease(s, error_code, chan) ==
    IF ~s.setup_called
    THEN [s EXCEPT !.setup_log = Append(@, [error_code |-> error_code, channel |-> chan]),
                   !.setup_called = TRUE,
                   !.shutdown_callback = IF error_code # AWS_OP_SUCCESS THEN FALSE ELSE @]
    ELSE [s EXCEPT !.asserts = @ \cup {"!setup_called"}]

s_connection_args_setup_callback(s, error_code, chan) ==
    IF ~s.setup_called
    THEN LET a == IF (error_code = AWS_OP_SUCCESS) = (chan # NULL)
                  THEN s
                  ELSE [s EXCEPT !.asserts = @ \cup {"(error_code == AWS_OP_SUCCESS) == (channel != NULL)"}]
             t == [TouchBootstrap(a) EXCEPT
                            !.setup_log = Append(@, [error_code |-> error_code, channel |-> chan]),
                            !.setup_called = TRUE,
                            !.shutdown_callback = IF error_code # AWS_OP_SUCCESS THEN FALSE ELSE @]
         IN s_client_connection_args_release(t)
    ELSE [s EXCEPT !.asserts = @ \cup {"!setup_called"}]

\* variant: the latched error is dropped when setup is reported from shutdown
s_connection_args_shutdown_callback_Unknown(s, error_code, chan) ==
    IF ~s.setup_called
    THEN s_connection_args_setup_callback(s, AWS_ERROR_UNKNOWN, NULL)
    ELSE IF s.shutdown_callback
         THEN [s EXCEPT !.shutdown_log = Append(@, [error_code |-> error_code, channel |-> chan])]
         ELSE s

\* variant: the shutdown's error code is passed on as it is
s_connection_args_shutdown_callback_NoSubstitute(s, error_code, chan) ==
    IF ~s.setup_called
    THEN s_connection_args_setup_callback(s, error_code, NULL)
    ELSE IF s.shutdown_callback
         THEN [TouchBootstrap(s) EXCEPT
                  !.shutdown_log = Append(@, [error_code |-> error_code, channel |-> chan])]
         ELSE s

\* variant: a shutdown before the setup callback tells the user nothing
s_connection_args_shutdown_callback_Silent(s, error_code, chan) ==
    IF ~s.setup_called
    THEN s
    ELSE IF s.shutdown_callback
         THEN [TouchBootstrap(s) EXCEPT
                  !.shutdown_log = Append(@, [error_code |-> error_code, channel |-> chan])]
         ELSE s

s_connection_args_shutdown_callback(s, error_code, chan) ==
    IF ~s.setup_called
    THEN s_connection_args_setup_callback(
             s, IF error_code # AWS_OP_SUCCESS THEN error_code ELSE AWS_ERROR_UNKNOWN, NULL)
    ELSE IF s.shutdown_callback
         THEN [TouchBootstrap(s) EXCEPT
                  !.shutdown_log = Append(@, [error_code |-> error_code, channel |-> chan])]
         ELSE s

\* variant: every failing attempt reports to the user
FailAttempt_AlwaysNotifies(s, error_code) ==
    s_connection_args_setup_callback(
        [s EXCEPT !.failed_count = (@ + 1) % UINT8_MOD], error_code, NULL)

\* variant: once a winner was chosen a failure is reported without the count test
FailAttempt_ChosenNotifies(s, error_code) ==
    LET t == [s EXCEPT !.failed_count = (@ + 1) % UINT8_MOD] IN
    IF t.failed_count = t.addresses_count \/ t.connection_chosen
    THEN s_connection_args_setup_callback(t, error_code, NULL)
    ELSE t

\* failed_count++ followed by the "last attempted connection" test
FailAttempt(s, error_code) ==
    LET t == [s EXCEPT !.failed_count = (@ + 1) % UINT8_MOD] IN
    IF t.failed_count = t.addresses_count
    THEN s_connection_args_setup_callback(t, error_code, NULL)
    ELSE t

\* aws_socket_clean_up + aws_mem_release of outgoing socket i
\* variant: the socket is kept
FreeSocket_Keeps(sk, i) == sk

FreeSocket(sk, i) ==
    [sk EXCEPT ![i] = IF @ \in {"freed", "double_freed"} THEN "double_freed" ELSE "freed"]

(* ------------------------------ channel ------------------------------- *)

\* variant: every call stores its error code
aws_channel_shutdown_Overwrites(ch, error_code) ==
    IF ch.state = "shut_down"
    THEN ch
    ELSE [ch EXCEPT !.state = "shutting_down", !.error_code = error_code]

\* the first shutdown latches its error code, later ones are ignored
aws_channel_shutdown(ch, error_code) ==
    IF ch.state \in {"shutting_down", "shut_down"}
    THEN ch
    ELSE [ch EXCEPT !.state = "shutting_down", !.error_code = error_code]

NoChannel == [state |-> "none", error_code |-> AWS_OP_SUCCESS]

(* -------------------------------- Init -------------------------------- *)

InitArgs ==
    [mem |-> "unallocated", ref_count |-> 0, failed_count |-> 0, addresses_count |-> 0,
     connection_chosen |-> FALSE, setup_called |-> FALSE, shutdown_callback |-> FALSE,
     use_tls |-> FALSE, on_protocol_negotiated |-> FALSE,
     bootstrap_ref_count |-> 1, bootstrap_destroyed |-> 0, bootstrap_released |-> FALSE,
     bootstrap_uaf |-> FALSE, args_freed |-> 0,
     setup_log |-> <<>>, shutdown_log |-> <<>>, asserts |-> {}, uaf |-> FALSE]

NoCall == [domain |-> AWS_SOCKET_IPV4, fail |-> "none"]

ClientInit ==
    /\ ret = "none"
    /\ opts = NoCall
    /\ cs = InitArgs
    /\ resolver_pc = "idle"
    /\ host_addresses = <<>>
    /\ sched_i = 0
    /\ attempt = [i \in AddrIdx |-> "none"]
    /\ sock = [i \in AddrIdx |-> "none"]
    /\ recorded = {}
    /\ channel = NoChannel
    /\ channel_socket = 0
    /\ slots = <<>>
    /\ tls = [state |-> "none", err_code |-> AWS_OP_SUCCESS]
    /\ resolve_error = AWS_OP_SUCCESS

(* ---------------- s_new_client_channel (caller's thread) -------------- *)

\* where the call fails, if it does
CallFailures ==
    {"none", "args_alloc", "tls_options_copy", "host_name", "resolve_host",
     "socket_alloc", "socket_init", "socket_connect"}

FailureApplies(o, fail) ==
    CASE fail \in {"none", "args_alloc"} -> TRUE
      [] fail = "tls_options_copy" -> o.tls
      [] fail \in {"host_name", "resolve_host"} -> o.domain # AWS_SOCKET_LOCAL
      [] OTHER -> o.domain = AWS_SOCKET_LOCAL

\* the state of args once the fields are filled in and the first reference is taken
NewArgs(s) ==
    [s_client_connection_args_acquire([s EXCEPT !.mem = "live"])
        EXCEPT !.shutdown_callback = TRUE]

\* o: the call's options; fail: the step that fails ("none": the call succeeds)
s_new_client_channel(o, fail) ==
    /\ opts' = [domain |-> o.domain, fail |-> fail]
    /\ UNCHANGED <<host_addresses, sched_i, recorded, channel, channel_socket, slots, tls, resolve_error>>
    /\ IF fail = "args_alloc"
       THEN /\ ret' = "ERR"
            /\ UNCHANGED <<cs, resolver_pc, attempt, sock>>
       ELSE LET s1 == NewArgs(cs) IN
            IF fail = "tls_options_copy"
            THEN /\ ret' = "ERR"
                 /\ cs' = s_client_connection_args_release(s1)
                 /\ UNCHANGED <<resolver_pc, attempt, sock>>
            ELSE LET s2 == [s1 EXCEPT !.use_tls = o.tls,
                                      !.on_protocol_negotiated = o.tls /\ o.alpn] IN
                 IF o.domain # AWS_SOCKET_LOCAL
                 THEN IF fail \in {"host_name", "resolve_host"}
                      THEN /\ ret' = "ERR"
                           /\ cs' = s_client_connection_args_release(s2)
                           /\ UNCHANGED <<resolver_pc, attempt, sock>>
                      ELSE /\ ret' = "OK"
                           /\ cs' = s2
                           /\ resolver_pc' = "pending"
                           /\ UNCHANGED <<attempt, sock>>
                 ELSE IF fail \in {"socket_alloc", "socket_init"}
                      THEN /\ ret' = "ERR"
                           /\ cs' = s_client_connection_args_release(s2)
                           /\ sock' = IF fail = "socket_init" THEN FreeSocket(sock, 1) ELSE sock
                           /\ UNCHANGED <<resolver_pc, attempt>>
                      ELSE LET s3 == s_client_connection_args_acquire(
                                         [s2 EXCEPT !.addresses_count = 1]) IN
                           IF fail = "socket_connect"
                           THEN /\ ret' = "ERR"
                                /\ cs' = s_client_connection_args_release(
                                             s_client_connection_args_release(s3))
                                /\ sock' = FreeSocket(sock, 1)
                                /\ UNCHANGED <<resolver_pc, attempt>>
                           ELSE /\ ret' = "OK"
                                /\ cs' = s3
                                /\ sock' = [sock EXCEPT ![1] = "open"]
                                /\ attempt' = [attempt EXCEPT ![1] = "connecting"]
                                /\ UNCHANGED resolver_pc

\* aws_client_bootstrap_new_socket_channel / aws_client_bootstrap_new_tls_socket_channel;
\* alpn: the bootstrap has an ALPN callback installed
NewSocketChannel ==
    /\ ret = "none"
    /\ \E domain \in SocketDomains, type \in SocketTypes, use_tls \in BOOLEAN, alpn \in BOOLEAN,
          fail \in CallFailures :
          LET o == [domain |-> domain, type |-> type, tls |-> use_tls, alpn |-> alpn] IN
          /\ FailureApplies(o, fail)
          /\ IF use_tls /\ type # AWS_SOCKET_STREAM
             THEN /\ fail = "none"
                  /\ ret' = "ERR"
                  /\ opts' = [domain |-> domain, fail |-> "invalid_options"]
                  /\ UNCHANGED <<cs, resolver_pc, host_addresses, sched_i, attempt, sock,
                                 recorded, channel, channel_socket, slots, tls, resolve_error>>
             ELSE s_new_client_channel(o, fail)

(* ---------------- s_on_host_resolved (resolver's thread) -------------- *)

AddressLists == UNION {[1..n -> RecordTypes] : n \in 1..MaxAddrs}

\* the error branch, and the allocation of the task data for every address;
\* fail_at = 0 when every allocation succeeds, else the index that fails
s_on_host_resolved(err_code, addrs, fail_at, alloc_err_code) ==
    /\ resolver_pc = "pending"
    /\ UNCHANGED <<ret, opts, attempt, sock, recorded, channel, channel_socket, slots, tls>>
    /\ resolve_error' = err_code
    /\ IF err_code # AWS_OP_SUCCESS
       THEN /\ cs' = s_connection_args_setup_callback(Touch(cs), err_code, NULL)
            /\ resolver_pc' = "done"
            /\ UNCHANGED <<host_addresses, sched_i>>
       ELSE LET s1 == [Touch(cs) EXCEPT !.addresses_count = Len(addrs) % UINT8_MOD] IN
            /\ host_addresses' = addrs
            /\ IF fail_at # 0
               THEN /\ cs' = s_connection_args_setup_callback(s1, alloc_err_code, NULL)
                    /\ resolver_pc' = "done"
                    /\ UNCHANGED sched_i
               ELSE /\ cs' = s1
                    /\ resolver_pc' = "scheduling"
                    /\ sched_i' = 1

OnHostResolved ==
    \/ \E err_code \in ErrorCodes :
          s_on_host_resolved(err_code, <<>>, 0, err_code)
    \/ \E addrs \in AddressLists, fail_at \in 0..MaxAddrs, alloc_err_code \in ErrorCodes :
          /\ fail_at <= Len(addrs)
          /\ s_on_host_resolved(AWS_OP_SUCCESS, addrs, fail_at, alloc_err_code)

\* one iteration of the scheduling loop: take a reference, schedule the task
ScheduleAttempt ==
    /\ resolver_pc = "scheduling"
    /\ cs' = s_client_connection_args_acquire(Touch(cs))
    /\ attempt' = [attempt EXCEPT ![sched_i] = "scheduled"]
    /\ sched_i' = sched_i + 1
    /\ resolver_pc' = IF sched_i = Len(host_addresses) THEN "done" ELSE "scheduling"
    /\ UNCHANGED <<ret, opts, host_addresses, sock, recorded, channel, channel_socket,
                   slots, tls, resolve_error>>

(* ------------- s_attempt_connection (connect loop's thread) ------------ *)

AttemptOutcomes == {"socket_alloc_failed", "socket_init_failed", "socket_connect_failed", "connecting"}

\* variant: no label of the task reports the address
RecordsTaskFailure_Never(outcome) ==
    FALSE

\* only the socket_connect_failed label reports the address to the resolver
RecordsTaskFailure(outcome) ==
    outcome = "socket_connect_failed"

s_attempt_connection(i, status, outcome, last_error) ==
    /\ attempt[i] = "scheduled"
    /\ UNCHANGED <<ret, opts, resolver_pc, host_addresses, sched_i, channel, channel_socket,
                   slots, tls, resolve_error>>
    /\ IF status # AWS_TASK_STATUS_RUN_READY
       THEN \* task_cancelled: err_code is still 0
            /\ cs' = s_client_connection_args_release(FailAttempt(Touch(cs), AWS_OP_SUCCESS))
            /\ attempt' = [attempt EXCEPT ![i] = "task_cancelled"]
            /\ UNCHANGED <<sock, recorded>>
       ELSE IF outcome = "connecting"
       THEN /\ attempt' = [attempt EXCEPT ![i] = "connecting"]
            /\ sock' = [sock EXCEPT ![i] = "open"]
            /\ UNCHANGED <<cs, recorded>>
       ELSE /\ recorded' = IF RecordsTaskFailure(outcome)
                           THEN recorded \cup {[address |-> i, record_type |-> host_addresses[i]]}
                           ELSE recorded
            /\ sock' = IF outcome = "socket_alloc_failed" THEN sock ELSE FreeSocket(sock, i)
            /\ cs' = s_client_connection_args_release(FailAttempt(Touch(cs), last_error))
            /\ attempt' = [attempt EXCEPT ![i] = outcome]

AttemptConnection ==
    \E i \in AddrIdx, status \in TaskStatuses, outcome \in AttemptOutcomes, last_error \in ErrorCodes :
        s_attempt_connection(i, status, outcome, last_error)

(* ------- s_on_client_connection_established (connect loop's thread) ---- *)

\* the record type the completion handler gives the resolver
EstablishedRecordType(o) ==
    IF o.domain = AWS_SOCKET_IPV6 THEN AWS_ADDRESS_RECORD_TYPE_AAAA ELSE AWS_ADDRESS_RECORD_TYPE_A

\* variant: a connect that succeeds is always taken as the winner
ReleasesSocket_OnErrorOnly(s, error_code) ==
    error_code # AWS_OP_SUCCESS

\* the socket is released: the connect failed, or a winner was already chosen
ReleasesSocket(s, error_code) ==
    error_code # AWS_OP_SUCCESS \/ s.connection_chosen

\* the bad address is reported to the resolver
\* variant: the bad address is recorded for local sockets too
RecordsBadAddress_AnyDomain(o, error_code, address_ok) ==
    error_code # AWS_OP_SUCCESS /\ address_ok

RecordsBadAddress(o, error_code, address_ok) ==
    o.domain # AWS_SOCKET_LOCAL /\ error_code # AWS_OP_SUCCESS /\ address_ok

\* address_ok: aws_string_new_from_c_str for the bad address succeeded
\* channel_ok: aws_channel_new returned a channel
s_on_client_connection_established(i, error_code, address_ok, channel_ok) ==
    /\ attempt[i] = "connecting"
    /\ UNCHANGED <<ret, opts, resolver_pc, host_addresses, sched_i, slots, tls, resolve_error>>
    /\ LET s0 == Touch(cs)
           s1 == IF error_code # AWS_OP_SUCCESS
                 THEN [s0 EXCEPT !.failed_count = (@ + 1) % UINT8_MOD] ELSE s0
       IN
       IF ReleasesSocket(s1, error_code)
       THEN /\ recorded' = IF RecordsBadAddress(opts, error_code, address_ok)
                           THEN recorded \cup {[address |-> i, record_type |-> EstablishedRecordType(opts)]}
                           ELSE recorded
            /\ sock' = FreeSocket(sock, i)
            /\ cs' = s_client_connection_args_release(
                         IF s1.failed_count = s1.addresses_count
                         THEN s_connection_args_setup_callback(s1, error_code, NULL)
                         ELSE s1)
            /\ attempt' = [attempt EXCEPT ![i] =
                   IF error_code = AWS_OP_SUCCESS THEN "late"
                   ELSE IF opts.domain # AWS_SOCKET_LOCAL /\ ~address_ok THEN "connect_error_no_address"
                   ELSE "connect_error"]
            /\ UNCHANGED <<channel, channel_socket>>
       ELSE LET s2 == [s1 EXCEPT !.connection_chosen = TRUE] IN
            /\ channel_socket' = i
            /\ UNCHANGED recorded
            /\ IF channel_ok
               THEN /\ channel' = [state |-> "setup_pending", error_code |-> AWS_OP_SUCCESS]
                    /\ cs' = s2
                    /\ attempt' = [attempt EXCEPT ![i] = "chosen"]
                    /\ UNCHANGED sock
               ELSE /\ sock' = FreeSocket(sock, i)
                    /\ cs' = FailAttempt(s2, error_code)
                    /\ attempt' = [attempt EXCEPT ![i] = "chosen_no_channel"]
                    /\ UNCHANGED channel

OnClientConnectionEstablished ==
    \E i \in AddrIdx, error_code \in ErrorCodes \cup {AWS_OP_SUCCESS},
       address_ok \in BOOLEAN, channel_ok \in BOOLEAN :
        s_on_client_connection_established(i, error_code, address_ok, channel_ok)

(* ------- s_on_client_channel_on_setup_completed (channel's thread) ----- *)

\* the step of the pipeline construction that fails, if one does
SetupFailures ==
    {"none", "socket_slot_new", "socket_handler_new", "socket_set_handler",
     "tls_slot_new", "tls_handler_new", "tls_set_handler",
     "alpn_slot_new", "alpn_handler_new", "alpn_set_handler", "start_negotiation"}

SetupFailureApplies(s, o, fail) ==
    CASE fail \in {"none", "socket_slot_new", "socket_handler_new", "socket_set_handler"} -> TRUE
      [] fail \in {"tls_slot_new", "tls_handler_new", "tls_set_handler", "start_negotiation"} -> s.use_tls
      [] OTHER -> s.use_tls /\ s.on_protocol_negotiated

\* variant: the ALPN slot is inserted to the left of the TLS slot
SlotsBuilt_AlpnLeft(s, o, fail) ==
    CASE fail \in {"socket_slot_new", "socket_handler_new"} -> <<>>
      [] fail \in {"socket_set_handler", "tls_slot_new", "tls_handler_new"} -> <<"socket">>
      [] fail \in {"tls_set_handler", "alpn_slot_new", "alpn_handler_new"} -> <<"socket", "tls">>
      [] OTHER -> IF ~s.use_tls THEN <<"socket">>
                  ELSE IF s.on_protocol_negotiated THEN <<"socket", "alpn", "tls">>
                  ELSE <<"socket", "tls">>

\* the slots s_on_client_channel_on_setup_completed and s_setup_client_tls
\* leave in the channel when the construction stops at fail
SlotsBuilt(s, o, fail) ==
    CASE fail \in {"socket_slot_new", "socket_handler_new"} -> <<>>
      [] fail \in {"socket_set_handler", "tls_slot_new", "tls_handler_new"} -> <<"socket">>
      [] fail \in {"tls_set_handler", "alpn_slot_new", "alpn_handler_new"} -> <<"socket", "tls">>
      [] OTHER -> IF ~s.use_tls THEN <<"socket">>
                  ELSE IF s.on_protocol_negotiated THEN <<"socket", "tls", "alpn">>
                  ELSE <<"socket", "tls">>

s_on_client_channel_on_setup_completed(error_code, fail, last_error) ==
    /\ channel.state = "setup_pending"
    /\ UNCHANGED <<ret, opts, resolver_pc, host_addresses, sched_i, attempt, sock, recorded,
                   channel_socket, resolve_error>>
    /\ LET s0 == Touch(cs) IN
       IF error_code # AWS_OP_SUCCESS
       THEN /\ channel' = aws_channel_shutdown(channel, error_code)
            /\ cs' = s0
            /\ UNCHANGED <<slots, tls>>
       ELSE /\ SetupFailureApplies(s0, opts, fail)
            /\ slots' = SlotsBuilt(s0, opts, fail)
            /\ IF fail # "none"
               THEN /\ channel' = aws_channel_shutdown([channel EXCEPT !.state = "active"], last_error)
                    /\ cs' = s0
                    /\ UNCHANGED tls
               ELSE /\ channel' = [channel EXCEPT !.state = "active"]
                    /\ IF s0.use_tls
                       THEN /\ tls' = [tls EXCEPT !.state = "negotiating"]
                            /\ cs' = s0
                       ELSE /\ cs' = s_connection_args_setup_callback(s0, AWS_OP_SUCCESS, CHANNEL)
                            /\ UNCHANGED tls

OnClientChannelSetupCompleted ==
    \E error_code \in ErrorCodes \cup {AWS_OP_SUCCESS}, fail \in SetupFailures, last_error \in ErrorCodes :
        s_on_client_channel_on_setup_completed(error_code, fail, last_error)

(* --------- s_tls_client_on_negotiation_result (channel's thread) ------- *)

s_tls_client_on_negotiation_result(err_code) ==
    /\ tls.state = "negotiating"
    /\ channel.state \in {"active", "shutting_down"}
    /\ UNCHANGED <<ret, opts, resolver_pc, host_addresses, sched_i, attempt, sock, recorded,
                   channel_socket, slots, resolve_error>>
    /\ IF err_code # AWS_OP_SUCCESS
       THEN /\ channel' = aws_channel_shutdown(channel, err_code)
            /\ tls' = [state |-> IF channel.state = "active" THEN "failed" ELSE "failed_late",
                       err_code |-> err_code]
            /\ cs' = Touch(cs)
       ELSE /\ cs' = s_connection_args_setup_callback(Touch(cs), AWS_OP_SUCCESS, CHANNEL)
            /\ tls' = [tls EXCEPT !.state = "negotiated"]
            /\ UNCHANGED channel

OnTlsNegotiationResult ==
    \E err_code \in ErrorCodes \cup {AWS_OP_SUCCESS} : s_tls_client_on_negotiation_result(err_code)

(* ---------------- aws_channel_shutdown by a handler or the user -------- *)

\* the socket handler, the TLS handler or the user asks for the shutdown of the running channel
ChannelShutdown ==
    /\ channel.state = "active"
    /\ \E error_code \in ErrorCodes \cup {AWS_OP_SUCCESS} :
          /\ channel' = aws_channel_shutdown(channel, error_code)
    /\ UNCHANGED <<ret, opts, cs, resolver_pc, host_addresses, sched_i, attempt, sock, recorded,
                   channel_socket, slots, tls, resolve_error>>

(* ----------- s_on_client_channel_on_shutdown (channel's thread) -------- *)

s_on_client_channel_on_shutdown(error_code) ==
    /\ channel.state = "shutting_down"
    /\ cs' = s_client_connection_args_release(
                 s_connection_args_shutdown_callback(Touch(cs), error_code, CHANNEL))
    /\ channel' = [channel EXCEPT !.state = "destroyed"]
    /\ sock' = FreeSocket(sock, channel_socket)
    /\ UNCHANGED <<ret, opts, resolver_pc, host_addresses, sched_i, attempt, recorded,
                   channel_socket, slots, tls, resolve_error>>

OnClientChannelShutdown ==
    s_on_client_channel_on_shutdown(channel.error_code)

(* ------------- aws_client_bootstrap_release (a user's thread) --------- *)

\* the user gives up the reference aws_client_bootstrap_new returned, while the
\* request is in flight or after it; the wait for the thread-local cleanup tasks
\* changes nothing of the connection state
aws_client_bootstrap_release ==
    /\ ret = "OK"
    /\ ~cs.bootstrap_released
    /\ cs' = s_client_bootstrap_release([cs EXCEPT !.bootstrap_released = TRUE])
    /\ UNCHANGED <<ret, opts, resolver_pc, host_addresses, sched_i, attempt, sock, recorded,
                   channel, channel_socket, slots, tls, resolve_error>>

(* ============================ server bootstrap ======================== *)

s_server_bootstrap_acquire(s) ==
    [s EXCEPT !.bootstrap_ref_count = @ + 1]

s_server_bootstrap_release(s) ==
    [s EXCEPT !.bootstrap_ref_count = @ - 1,
              !.bootstrap_destroyed = @ + (IF s.bootstrap_ref_count = 1 THEN 1 ELSE 0)]

s_server_connection_args_acquire(s) ==
    LET t == [s EXCEPT !.ref_count = @ + 1] IN
    IF s.ref_count = 0 THEN s_server_bootstrap_acquire(t) ELSE t

\* the destroy callback fires on the one-to-zero transition, before the state is freed
s_server_connection_args_release(s) ==
    LET t == [s EXCEPT !.ref_count = @ - 1] IN
    IF s.ref_count = 1
    THEN [s_server_bootstrap_release(t) EXCEPT
             !.destroy_log = @ + (IF s.destroy_callback THEN 1 ELSE 0),
             !.mem = "freed"]
    ELSE t

\* variant: the invocation is not remembered
s_server_incoming_callback_NoFlag(cd, error_code, chan) ==
    [cd EXCEPT !.incoming_log = Append(@, [error_code |-> error_code, channel |-> chan])]

\* cd: one server_channel_data with its log of the user's callbacks
s_server_incoming_callback(cd, error_code, chan) ==
    [cd EXCEPT !.asserts = IF cd.incoming_called THEN @ \cup {"!incoming_called"} ELSE @,
               !.incoming_log = Append(@, [error_code |-> error_code, channel |-> chan]),
               !.incoming_called = TRUE]

NoConn ==
    [state |-> "none", data |-> "none", incoming_called |-> FALSE,
     incoming_log |-> <<>>, shutdown_log |-> <<>>, error_code |-> AWS_OP_SUCCESS,
     sock |-> "none", tls |-> "none", tls_err_code |-> AWS_OP_SUCCESS,
     asserts |-> {}, uaf |-> FALSE]

InitServerArgs ==
    [mem |-> "unallocated", ref_count |-> 0, bootstrap_ref_count |-> 1, bootstrap_destroyed |-> 0,
     destroy_callback |-> FALSE, destroy_log |-> 0, use_tls |-> FALSE,
     on_protocol_negotiated |-> FALSE, fail |-> "none"]

ServerInit ==
    /\ srv_ret = "none"
    /\ srv = InitServerArgs
    /\ listener = "none"
    /\ conns = [c \in ConnIdx |-> NoConn]

(* ------------------- s_server_new_socket_listener --------------------- *)

ListenerFailures ==
    {"none", "args_alloc", "tls_options_copy", "socket_init", "bind", "listen", "start_accept"}

\* o: tls (connection options given), alpn (the bootstrap has an ALPN callback),
\* destroy_callback (the user gave one); fail: the step that fails
s_server_new_socket_listener(o, fail) ==
    IF fail = "args_alloc"
    THEN /\ srv_ret' = "NULL"
         /\ srv' = [srv EXCEPT !.fail = fail]
         /\ UNCHANGED <<listener, conns>>
    ELSE LET s1 == [s_server_connection_args_acquire([srv EXCEPT !.mem = "live"])
                       EXCEPT !.destroy_callback = o.destroy_callback,
                              !.on_protocol_negotiated = o.alpn,
                              !.fail = fail]
             s2 == IF fail = "tls_options_copy" THEN s1 ELSE [s1 EXCEPT !.use_tls = o.tls]
         IN
         /\ UNCHANGED conns
         /\ IF fail = "none"
            THEN /\ srv_ret' = "listener"
                 /\ srv' = s2
                 /\ listener' = "accepting"
            ELSE /\ srv_ret' = "NULL"
                 /\ srv' = s_server_connection_args_release(s2)
                 /\ listener' = IF fail \in {"bind", "listen", "start_accept"}
                                THEN "cleaned_up" ELSE listener

\* aws_server_bootstrap_new_socket_listener / aws_server_bootstrap_new_tls_socket_listener
NewSocketListener ==
    /\ srv_ret = "none"
    /\ \E type \in SocketTypes, use_tls \in BOOLEAN, alpn \in BOOLEAN, destroy_callback \in BOOLEAN,
          fail \in ListenerFailures :
          /\ fail = "tls_options_copy" => use_tls
          /\ IF use_tls /\ type # AWS_SOCKET_STREAM
             THEN /\ fail = "none"
                  /\ srv_ret' = "NULL"
                  /\ srv' = [srv EXCEPT !.fail = "invalid_options"]
                  /\ UNCHANGED <<listener, conns>>
             ELSE s_server_new_socket_listener(
                      [tls |-> use_tls, alpn |-> alpn, destroy_callback |-> destroy_callback], fail)

(* --------- s_on_server_connection_result (listener loop's thread) ------ *)

AcceptFailures == {"none", "channel_data_alloc", "assign_to_event_loop", "channel_new"}

\* variant: the accepted socket is left to the caller
error_cleanup_KeepsSocket(cd, s, fail, last_error) ==
    [conn |-> [cd EXCEPT !.state = "accept_cleanup",
                         !.data = IF fail = "channel_data_alloc" THEN "none" ELSE "freed",
                         !.incoming_log = Append(@, [error_code |-> last_error, channel |-> NULL]),
                         !.sock = "open"],
     srv |-> s_server_connection_args_release(s)]

\* the error_cleanup label: the user is told, the new socket is cleaned up and freed,
\* the handler's reference is released
error_cleanup(cd, s, fail, last_error) ==
    [conn |-> [cd EXCEPT !.state = "accept_cleanup",
                         !.data = IF fail = "channel_data_alloc" THEN "none" ELSE "freed",
                         !.incoming_log = Append(@, [error_code |-> last_error, channel |-> NULL]),
                         !.sock = "freed"],
     srv |-> s_server_connection_args_release(s)]

s_on_server_connection_result(c, error_code, fail, last_error) ==
    /\ listener \in {"accepting", "destroy_scheduled"}
    /\ conns[c].state = "none"
    \* conns is indexed in the order of the accepts
    /\ \A b \in ConnIdx : b < c => conns[b].state # "none"
    /\ UNCHANGED <<srv_ret, listener>>
    /\ LET s1 == s_server_connection_args_acquire(srv) IN
       IF error_code = AWS_OP_SUCCESS
       THEN IF fail = "none"
            THEN /\ srv' = s1
                 /\ conns' = [conns EXCEPT ![c] = [@ EXCEPT !.state = "setup_pending",
                                                             !.data = "live",
                                                             !.sock = "open"]]
            ELSE /\ srv' = error_cleanup(conns[c], s1, fail, last_error).srv
                 /\ conns' = [conns EXCEPT ![c] = error_cleanup(conns[c], s1, fail, last_error).conn]
       ELSE /\ fail = "none"
            /\ srv' = s_server_connection_args_release(s1)
            /\ conns' = [conns EXCEPT ![c] =
                   [@ EXCEPT !.state = "accept_failed",
                             !.incoming_log = Append(@, [error_code |-> error_code, channel |-> NULL])]]

OnServerConnectionResult ==
    \E c \in ConnIdx, error_code \in ErrorCodes \cup {AWS_OP_SUCCESS}, fail \in AcceptFailures,
       last_error \in ErrorCodes :
        s_on_server_connection_result(c, error_code, fail, last_error)

(* ------- s_on_server_channel_on_setup_completed (channel's thread) ----- *)

ServerSetupFailures ==
    {"none", "socket_slot_new", "socket_handler_new", "socket_set_handler",
     "tls_slot_new", "tls_handler_new", "tls_set_handler",
     "alpn_slot_new", "alpn_handler_new", "alpn_set_handler"}

ServerSetupFailureApplies(s, fail) ==
    CASE fail \in {"none", "socket_slot_new", "socket_handler_new", "socket_set_handler"} -> TRUE
      [] fail \in {"tls_slot_new", "tls_handler_new", "tls_set_handler"} -> s.use_tls
      [] OTHER -> s.use_tls /\ s.on_protocol_negotiated

\* released: what the read of channel_data->server_connection_args after channel_data
\* was freed yields in the error branch: the server state (TRUE) or something else
s_on_server_channel_on_setup_completed(c, error_code, fail, last_error, released) ==
    /\ conns[c].state = "setup_pending"
    /\ UNCHANGED <<srv_ret, listener>>
    /\ IF error_code # AWS_OP_SUCCESS
       THEN /\ fail = "none"
            /\ conns' = [conns EXCEPT ![c] =
                   [s_server_incoming_callback([@ EXCEPT !.sock = "freed"], error_code, NULL)
                       EXCEPT !.state = "setup_error", !.data = "freed", !.uaf = TRUE]]
            /\ srv' = IF released THEN s_server_connection_args_release(srv) ELSE srv
       ELSE /\ released
            /\ ServerSetupFailureApplies(srv, fail)
            /\ UNCHANGED srv
            /\ LET cd == conns[c] IN
               IF fail # "none"
               THEN conns' = [conns EXCEPT ![c] =
                        [cd EXCEPT !.state = "shutting_down", !.error_code = last_error]]
               ELSE IF srv.use_tls
               THEN conns' = [conns EXCEPT ![c] = [cd EXCEPT !.state = "active", !.tls = "negotiating"]]
               ELSE conns' = [conns EXCEPT ![c] =
                        [s_server_incoming_callback(cd, AWS_OP_SUCCESS, CHANNEL)
                            EXCEPT !.state = "active"]]

OnServerChannelSetupCompleted ==
    \E c \in ConnIdx, error_code \in ErrorCodes \cup {AWS_OP_SUCCESS}, fail \in ServerSetupFailures,
       last_error \in ErrorCodes, released \in BOOLEAN :
        s_on_server_channel_on_setup_completed(c, error_code, fail, last_error, released)

(* --------- s_tls_server_on_negotiation_result (channel's thread) ------- *)

s_tls_server_on_negotiation_result(c, err_code) ==
    /\ conns[c].tls = "negotiating"
    /\ conns[c].state \in {"active", "shutting_down"}
    /\ UNCHANGED <<srv_ret, srv, listener>>
    /\ IF err_code # AWS_OP_SUCCESS
       THEN conns' = [conns EXCEPT ![c] =
                [@ EXCEPT !.tls = IF @ = "negotiating" /\ conns[c].state = "active"
                                  THEN "failed" ELSE "failed_late",
                          !.tls_err_code = err_code,
                          !.error_code = IF conns[c].state = "shutting_down" THEN @ ELSE err_code,
                          !.state = "shutting_down"]]
       ELSE conns' = [conns EXCEPT ![c] =
                [s_server_incoming_callback(@, err_code, CHANNEL) EXCEPT !.tls = "negotiated"]]

OnTlsServerNegotiationResult ==
    \E c \in ConnIdx, err_code \in ErrorCodes \cup {AWS_OP_SUCCESS} :
        s_tls_server_on_negotiation_result(c, err_code)

(* ---------------- aws_channel_shutdown by a handler or the user -------- *)

ServerChannelShutdown ==
    \E c \in ConnIdx, error_code \in ErrorCodes \cup {AWS_OP_SUCCESS} :
        /\ conns[c].state = "active"
        /\ conns' = [conns EXCEPT ![c] = [@ EXCEPT !.state = "shutting_down",
                                                    !.error_code = error_code]]
        /\ UNCHANGED <<srv_ret, srv, listener>>

(* ----------- s_on_server_channel_on_shutdown (channel's thread) -------- *)

\* variant: the shutdown callback is invoked whether or not the channel was handed over
ServerShutdownNotification_Always(cd, error_code) ==
    [cd EXCEPT !.shutdown_log = Append(@, [error_code |-> error_code, channel |-> CHANNEL])]

\* variant: a shutdown before the incoming callback always reports AWS_ERROR_UNKNOWN
ServerShutdownNotification_Unknown(cd, error_code) ==
    IF ~cd.incoming_called
    THEN s_server_incoming_callback(cd, AWS_ERROR_UNKNOWN, NULL)
    ELSE [cd EXCEPT !.shutdown_log = Append(@, [error_code |-> error_code, channel |-> CHANNEL])]

\* the user callback s_on_server_channel_on_shutdown invokes
ServerShutdownNotification(cd, error_code) ==
    IF ~cd.incoming_called
    THEN s_server_incoming_callback(
             cd, IF error_code # AWS_OP_SUCCESS THEN error_code ELSE AWS_ERROR_UNKNOWN, NULL)
    ELSE [cd EXCEPT !.shutdown_log = Append(@, [error_code |-> error_code, channel |-> CHANNEL])]

s_on_server_channel_on_shutdown(c, error_code) ==
    /\ conns[c].state = "shutting_down"
    /\ UNCHANGED <<srv_ret, listener>>
    /\ conns' = [conns EXCEPT ![c] = [ServerShutdownNotification(conns[c], error_code)
                                         EXCEPT !.state = "done", !.sock = "freed", !.data = "freed"]]
    /\ srv' = s_server_connection_args_release(srv)

OnServerChannelShutdown ==
    \E c \in ConnIdx : s_on_server_channel_on_shutdown(c, conns[c].error_code)

(* ----------------- aws_server_bootstrap_destroy_socket_listener -------- *)

DestroySocketListener ==
    /\ listener = "accepting"
    /\ listener' = "destroy_scheduled"
    /\ UNCHANGED <<srv_ret, srv, conns>>

\* s_listener_destroy_task
ListenerDestroyTask ==
    /\ listener = "destroy_scheduled"
    /\ listener' = "cleaned_up"
    /\ srv' = s_server_connection_args_release(srv)
    /\ UNCHANGED <<srv_ret, conns>>
(* ============ aws_client_bootstrap_release / aws_server_bootstrap_release ============ *)
(* The releasing thread runs s_ensure_thread_local_state_is_cleaned_up and then drops   *)
(* the user's reference.  It and the event loops' threads interleave at the mutex and   *)
(* at the condition variable, so the function is cut at exactly those points.           *)

NoTask == [pc |-> "none", invoked |-> FALSE, scheduled |-> 0, cleaned |-> 0]

InitRelease ==
    [pc |-> "idle", kind |-> "client", len |-> 0, caller |-> USER_THREAD, i |-> 0,
     mutex |-> "free", released |-> FALSE, dangling |-> FALSE,
     bootstrap_ref_count |-> 1, bootstrap_destroyed |-> 0, bootstrap_uaf |-> FALSE]

ReleaseInit ==
    /\ rel = InitRelease
    /\ el_task = [j \in LoopIdx |-> NoTask]

\* variant: the predicate does not look at the flag
s_tl_cleanup_predicate_True(shutdown_task_data) == TRUE

s_tl_cleanup_predicate(shutdown_task_data) == shutdown_task_data.invoked

\* variant: the task never reaches the loop's queue
aws_event_loop_schedule_task_now_Dropped(t) == t

\* the loop body's task data (invoked = false) and task, handed to the loop
aws_event_loop_schedule_task_now(t) ==
    [t EXCEPT !.pc = "scheduled", !.invoked = FALSE, !.scheduled = @ + 1]

\* s_client_bootstrap_release or s_server_bootstrap_release, by the bootstrap's kind
BootstrapRelease(r) ==
    IF r.kind = "client" THEN s_client_bootstrap_release(r) ELSE s_server_bootstrap_release(r)

\* loop j's thread can run a task unless it is the thread that sits in the release call
LoopThreadRuns(j) == rel.caller # j \/ rel.pc \in {"idle", "returned"}

\* the call: the mutex and the condition variable are set up on the caller's stack,
\* the mutex is locked and the loop count is read.  The caller is a user thread or
\* one of the group's event loop threads; a connection state may hold one more
\* reference on the bootstrap.
EnsureCleanupBegin ==
    /\ rel.pc = "idle"
    /\ \E kind \in {"client", "server"}, len \in LoopIdx, caller \in {USER_THREAD} \cup LoopIdx,
          others \in 0..1 :
        /\ caller <= len
        /\ rel' = [rel EXCEPT !.pc = "loop", !.kind = kind, !.len = len, !.caller = caller,
                              !.i = 1, !.mutex = "caller",
                              !.bootstrap_ref_count = 1 + others]
    /\ UNCHANGED el_task

\* one iteration up to the wait: fresh task data, the task goes to loop i
ScheduleCleanupTask ==
    /\ rel.pc = "loop"
    /\ rel.i <= rel.len
    /\ el_task' = [el_task EXCEPT ![rel.i] = aws_event_loop_schedule_task_now(@)]
    /\ rel' = [rel EXCEPT !.pc = "wait_pred"]

\* aws_condition_variable_wait_pred, with the mutex held: done if the predicate is
\* true, else the mutex is given up and the thread sleeps on the condition variable
WaitPred ==
    /\ rel.pc = "wait_pred"
    /\ rel' = IF s_tl_cleanup_predicate(el_task[rel.i])
              THEN [rel EXCEPT !.pc = "loop", !.i = @ + 1]
              ELSE [rel EXCEPT !.pc = "sleeping", !.mutex = "free"]
    /\ UNCHANGED el_task

\* a condition variable may wake its waiter without a notification
SpuriousWakeup ==
    /\ rel.pc = "sleeping"
    /\ rel' = [rel EXCEPT !.pc = "waking"]
    /\ UNCHANGED el_task

\* the woken waiter takes the mutex again and evaluates the predicate again
ReacquireMutex ==
    /\ rel.pc = "waking"
    /\ rel.mutex = "free"
    /\ rel' = [rel EXCEPT !.pc = "wait_pred", !.mutex = "caller"]
    /\ UNCHANGED el_task

\* after the last iteration: unlock, then the user's reference is dropped
EnsureCleanupEnd ==
    /\ rel.pc = "loop"
    /\ rel.i > rel.len
    /\ rel' = BootstrapRelease([rel EXCEPT !.pc = "returned", !.mutex = "free", !.released = TRUE])
    /\ UNCHANGED el_task

\* s_handle_thread_local_cleanup_task on loop j's thread: aws_mutex_lock
CleanupTaskLock ==
    \E j \in LoopIdx :
        /\ el_task[j].pc = "scheduled"
        /\ LoopThreadRuns(j)
        /\ rel.mutex = "free"
        /\ rel' = [rel EXCEPT !.mutex = "task"]
        /\ el_task' = [el_task EXCEPT ![j].pc = "locked"]

\* ... the thread-local state is cleaned up, the flag is set, the mutex is unlocked
CleanupTaskBody ==
    \E j \in LoopIdx :
        /\ el_task[j].pc = "locked"
        /\ rel' = [rel EXCEPT !.mutex = "free"]
        /\ el_task' = [el_task EXCEPT ![j] = [@ EXCEPT !.pc = "unlocked", !.invoked = TRUE,
                                                       !.cleaned = @ + 1]]

\* ... aws_condition_variable_notify_one through the task data's pointer.  The task
\* data lives in the waiter's loop body: once the waiter has gone on, the pointer
\* is read from a dead object.
CleanupTaskNotify ==
    \E j \in LoopIdx :
        /\ el_task[j].pc = "unlocked"
        /\ rel' = [rel EXCEPT !.pc = IF @ = "sleeping" THEN "waking" ELSE @,
                              !.dangling = @ \/ rel.i # j \/ rel.pc = "returned"]
        /\ el_task' = [el_task EXCEPT ![j].pc = "done"]

(* =============================== channel ============================== *)
(* One channel with its pipeline of slots: setup, messages between adjacent   *)
(* slots, and the shutdown state machine.                                     *)

NoHandler ==
    [installed |-> FALSE, window_size |-> 0, read |-> "none", write |-> "none",
     read_calls |-> 0, write_calls |-> 0, processed |-> 0]

\* a slot whose handler reports initial_window_size() = w
NewHandler(w) == [NoHandler EXCEPT !.installed = TRUE, !.window_size = w]

InitChannel ==
    [state |-> "none", error_code |-> AWS_OP_SUCCESS, shutdown_state |-> "NotStarted", n |-> 0,
     setup_log |-> <<>>, shutdown_log |-> <<>>, shutdown_calls |-> 0, first_error |-> NULL,
     last_error |-> NULL, left_write_done |-> FALSE, sends |-> 0]

NoMessage ==
    [from |-> 0, to |-> 0, dir |-> AWS_CHANNEL_DIR_READ, len |-> 0, ret |-> AWS_OP_SUCCESS,
     owner |-> "sender"]

ChannelInit ==
    /\ aws_channel = InitChannel
    /\ handlers = [i \in SlotIdx |-> NoHandler]
    /\ msg = NoMessage
    /\ hold = [count |-> 0, acquired |-> 0, destroy_called |-> FALSE, freed |-> 0, freed_by |-> NULL]

\* aws_channel_new: the channel exists, its setup task is on the event loop
ChannelNew ==
    /\ aws_channel.state = "none"
    /\ aws_channel' = [aws_channel EXCEPT !.state = "setup_pending"]
    /\ UNCHANGED <<handlers, msg>>

\* the callback the setup task invokes
on_setup_completed(ch, error_code, n) ==
    [ch EXCEPT !.setup_log = Append(@, error_code),
               !.n = IF error_code = AWS_OP_SUCCESS THEN n ELSE 0,
               !.state = IF @ # "setup_pending" THEN @
                         ELSE IF error_code = AWS_OP_SUCCESS THEN "active" ELSE "setup_failed"]

\* the setup task runs; on success the owner installs n slots with their handlers
\* from inside the callback
ChannelSetupTask ==
    /\ aws_channel.state # "none"
    /\ Len(aws_channel.setup_log) = 0
    /\ \E error_code \in ErrorCodes \cup {AWS_OP_SUCCESS}, n \in SlotIdx, w \in [SlotIdx -> 0..MaxWindow] :
        /\ \A i \in SlotIdx : (i > n \/ error_code # AWS_OP_SUCCESS) => w[i] = 0
        /\ error_code # AWS_OP_SUCCESS => n = 1
        /\ aws_channel' = on_setup_completed(aws_channel, error_code, n)
        /\ handlers' = IF error_code = AWS_OP_SUCCESS
                       THEN [i \in SlotIdx |-> IF i <= n THEN NewHandler(w[i]) ELSE NoHandler]
                       ELSE handlers
    /\ UNCHANGED msg

\* variant: the window is not checked
aws_channel_slot_send_message_NoWindowCheck(hs, from, dir, len) ==
    LET to == IF dir = AWS_CHANNEL_DIR_READ THEN from + 1 ELSE from - 1 IN
    [handlers |-> [hs EXCEPT ![to] = [@ EXCEPT !.processed = @ + 1,
                       !.window_size = IF dir = AWS_CHANNEL_DIR_READ THEN @ - len ELSE @]],
     msg |-> [from |-> from, to |-> to, dir |-> dir, len |-> len, ret |-> AWS_OP_SUCCESS,
              owner |-> "recipient"]]

\* the message goes to the adjacent slot in direction dir.  To the right the
\* neighbor's window is checked and charged, to the left there is no window.
\* The neighbor's process_read_message / process_write_message takes the message.
aws_channel_slot_send_message(hs, from, dir, len) ==
    LET to == IF dir = AWS_CHANNEL_DIR_READ THEN from + 1 ELSE from - 1 IN
    IF dir = AWS_CHANNEL_DIR_READ /\ hs[to].window_size < len
    THEN [handlers |-> hs,
          msg |-> [from |-> from, to |-> to, dir |-> dir, len |-> len,
                   ret |-> AWS_IO_CHANNEL_READ_WOULD_EXCEED_WINDOW, owner |-> "sender"]]
    ELSE [handlers |-> [hs EXCEPT ![to] = [@ EXCEPT !.processed = @ + 1,
                            !.window_size = IF dir = AWS_CHANNEL_DIR_READ THEN @ - len ELSE @]],
          msg |-> [from |-> from, to |-> to, dir |-> dir, len |-> len, ret |-> AWS_OP_SUCCESS,
                   owner |-> "recipient"]]

\* a handler of the running channel sends a message to its neighbor
SlotSendMessage ==
    /\ aws_channel.state = "active"
    /\ aws_channel.sends < MaxCalls
    /\ \E from \in SlotIdx, dir \in {AWS_CHANNEL_DIR_READ, AWS_CHANNEL_DIR_WRITE},
          len \in 0..(MaxWindow + 1) :
        /\ from <= aws_channel.n
        /\ IF dir = AWS_CHANNEL_DIR_READ THEN from < aws_channel.n ELSE from > 1
        /\ LET r == aws_channel_slot_send_message(handlers, from, dir, len) IN
           /\ handlers' = r.handlers
           /\ msg' = r.msg
    /\ aws_channel' = [aws_channel EXCEPT !.sends = @ + 1]

\* aws_channel_shutdown from any thread
ChannelShutdownCall ==
    /\ aws_channel.state # "none"
    /\ aws_channel.shutdown_calls < MaxCalls
    /\ \E error_code \in ErrorCodes \cup {AWS_OP_SUCCESS} :
        aws_channel' = [aws_channel_shutdown(aws_channel, error_code) EXCEPT
                    !.shutdown_calls = @ + 1,
                    !.first_error = IF aws_channel.shutdown_calls = 0 THEN error_code ELSE @,
                    !.last_error = error_code]
    /\ UNCHANGED <<handlers, msg>>

\* the channel calls the handler's shutdown in direction dir
HandlerShutdown(hs, i, dir) ==
    IF dir = AWS_CHANNEL_DIR_READ
    THEN [hs EXCEPT ![i] = [@ EXCEPT !.read = "invoked", !.read_calls = @ + 1]]
    ELSE [hs EXCEPT ![i] = [@ EXCEPT !.write = "invoked", !.write_calls = @ + 1]]

\* the callback made when the shutdown is over, with the latched error code
on_shutdown_completed(ch) ==
    [ch EXCEPT !.state = "shut_down", !.shutdown_state = "Completed",
               !.shutdown_log = Append(@, ch.error_code)]

\* the shutdown enters on the channel's thread, after the setup task: the leftmost
\* handler is shut down for reading; a channel without slots is done at once
ChannelShutdownTask ==
    /\ aws_channel.state = "shutting_down"
    /\ aws_channel.shutdown_state = "NotStarted"
    /\ Len(aws_channel.setup_log) > 0
    /\ IF aws_channel.n = 0
       THEN /\ aws_channel' = on_shutdown_completed(aws_channel)
            /\ UNCHANGED handlers
       ELSE /\ aws_channel' = [aws_channel EXCEPT !.shutdown_state = "ReadShuttingDown"]
            /\ handlers' = HandlerShutdown(handlers, 1, AWS_CHANNEL_DIR_READ)
    /\ UNCHANGED msg

\* variant: every slot is taken for the last one of its direction
aws_channel_slot_on_handler_shutdown_complete_NoNeighbor(ch, hs, i, dir) ==
    IF dir = AWS_CHANNEL_DIR_READ
    THEN [channel |-> [ch EXCEPT !.shutdown_state = "WriteShuttingDown"],
          handlers |-> HandlerShutdown([hs EXCEPT ![i].read = "complete"], i, AWS_CHANNEL_DIR_WRITE)]
    ELSE [channel |-> on_shutdown_completed([ch EXCEPT !.left_write_done = (i = 1)]),
          handlers |-> [hs EXCEPT ![i].write = "complete"]]

\* handler i has finished its shutdown in direction dir: the shutdown goes on to the
\* next handler of that direction, turns around at the rightmost slot, and is
\* completed at the leftmost
aws_channel_slot_on_handler_shutdown_complete(ch, hs, i, dir) ==
    IF dir = AWS_CHANNEL_DIR_READ
    THEN LET h1 == [hs EXCEPT ![i].read = "complete"] IN
         IF i < ch.n
         THEN [channel |-> ch, handlers |-> HandlerShutdown(h1, i + 1, AWS_CHANNEL_DIR_READ)]
         ELSE [channel |-> [ch EXCEPT !.shutdown_state = "WriteShuttingDown"],
               handlers |-> HandlerShutdown(h1, i, AWS_CHANNEL_DIR_WRITE)]
    ELSE LET h1 == [hs EXCEPT ![i].write = "complete"] IN
         IF i > 1
         THEN [channel |-> ch, handlers |-> HandlerShutdown(h1, i - 1, AWS_CHANNEL_DIR_WRITE)]
         ELSE [channel |-> on_shutdown_completed([ch EXCEPT !.left_write_done = TRUE]),
               handlers |-> h1]

\* a handler whose shutdown was invoked reports, at once or from a later task
HandlerShutdownComplete ==
    /\ \E i \in SlotIdx, dir \in {AWS_CHANNEL_DIR_READ, AWS_CHANNEL_DIR_WRITE} :
        /\ IF dir = AWS_CHANNEL_DIR_READ
           THEN handlers[i].read = "invoked"
           ELSE handlers[i].write = "invoked"
        /\ LET r == aws_channel_slot_on_handler_shutdown_complete(aws_channel, handlers, i, dir) IN
           /\ aws_channel' = r.channel
           /\ handlers' = r.handlers
    /\ UNCHANGED msg

\* variant: aws_channel_destroy frees whatever the hold count
FreesChannel_OnDestroy(h) == h.destroy_called

\* the channel's memory goes back to the allocator
FreesChannel(h) == h.destroy_called /\ h.count = 0

\* the call by that the memory is freed, if it is
FreeChannelBy(h, call) ==
    IF FreesChannel(h) THEN [h EXCEPT !.freed = @ + 1, !.freed_by = call] ELSE h

\* aws_channel_acquire_hold by a user of the channel that is still allocated
ChannelAcquireHold ==
    /\ aws_channel.state # "none"
    /\ hold.freed = 0
    /\ hold.acquired < MaxCalls
    /\ hold' = [hold EXCEPT !.count = @ + 1, !.acquired = @ + 1]
    /\ UNCHANGED <<aws_channel, handlers, msg>>

\* aws_channel_release_hold by a user that holds one, before or after the destroy
ChannelReleaseHold ==
    /\ hold.count > 0
    /\ hold' = FreeChannelBy([hold EXCEPT !.count = @ - 1], "aws_channel_release_hold")
    /\ UNCHANGED <<aws_channel, handlers, msg>>

\* aws_channel_destroy, once the shutdown has completed
ChannelDestroy ==
    /\ aws_channel.state = "shut_down"
    /\ ~hold.destroy_called
    /\ hold' = FreeChannelBy([hold EXCEPT !.destroy_called = TRUE], "aws_channel_destroy")
    /\ UNCHANGED <<aws_channel, handlers, msg>>

(* -------------------------------- specs ------------------------------- *)

(* ============ the 8-bit counters over long address lists ============== *)

\* lengths of the resolved list: short ones and those around the width of the counters
ResolvedLengths == (1..MaxAddrs) \cup ((UINT8_MOD - 1)..MaxResolved)

CountInit ==
    wide = [pc |-> "idle", host_addresses_len |-> 0, tasks |-> 0, args |-> InitArgs]

\* s_on_host_resolved without a failure: addresses_count is recorded and every task
\* takes its reference and is scheduled
WideHostResolved ==
    /\ wide.pc = "idle"
    /\ \E host_addresses_len \in ResolvedLengths :
          wide' = [pc |-> "racing",
                   host_addresses_len |-> host_addresses_len,
                   tasks |-> host_addresses_len,
                   args |-> [NewArgs(InitArgs) EXCEPT
                                !.addresses_count = host_addresses_len % UINT8_MOD,
                                !.ref_count = @ + host_addresses_len]]

\* one attempt task fails before its connect is issued (socket_init_failed,
\* socket_connect_failed, task_cancelled)
WideAttemptFails ==
    /\ wide.pc = "racing"
    /\ wide.tasks > 0
    /\ \E last_error \in ErrorCodes :
          wide' = [wide EXCEPT
                      !.tasks = @ - 1,
                      !.args = s_client_connection_args_release(
                                   FailAttempt(Touch(wide.args), last_error))]

(* ==================== the TLS callback trampolines ===================== *)

TlsCallbackKinds == {"on_data_read", "on_error", "on_negotiation_result"}

TrampolineInit ==
    tramp = [side |-> "none", supplied |-> {}, calls |-> 0, log |-> <<>>]

\* the object the TLS handler of the channel was given as user_data
HandlerUserData(side) ==
    IF side = "client" THEN "client_connection_args" ELSE "server_channel_data"

\* the type the trampoline casts its user_data to
InterpretsAs(side, kind) ==
    IF side = "client" THEN "client_connection_args"
    ELSE IF kind = "on_negotiation_result" THEN "server_channel_data"
    ELSE "server_connection_args"

\* the trampolines the TLS handler holds: on_negotiation_result always, the others
\* only when the user supplied a callback of that kind
Wrapped(supplied) == supplied \cup {"on_negotiation_result"}

\* s_new_client_channel / s_server_new_socket_listener with TLS options, up to the
\* creation of the channel's TLS handler
InstallTlsCallbacks ==
    /\ tramp.side = "none"
    /\ \E side \in {"client", "server"}, supplied \in SUBSET TlsCallbackKinds :
          tramp' = [tramp EXCEPT !.side = side, !.supplied = supplied]

\* what a trampoline does with its user_data: it reads the user's callback and
\* tls_user_data from the object it takes user_data for. read: what the read of an
\* object of another type yields, "null" or "garbage"
Forwards(side, supplied, kind, read) ==
    IF HandlerUserData(side) = InterpretsAs(side, kind)
    THEN IF kind \in supplied
         THEN <<[who |-> "user", kind |-> kind, arg |-> "tls_user_data"]>>
         ELSE <<>>
    ELSE IF read = "garbage"
         THEN <<[who |-> "wild", kind |-> kind, arg |-> "garbage"]>>
         ELSE <<>>

\* what the bootstrap does with a negotiation result after the user's callback
Acts(side, kind, err_code) ==
    IF kind # "on_negotiation_result" THEN <<>>
    ELSE IF err_code # AWS_OP_SUCCESS
    THEN <<[who |-> "bootstrap", kind |-> kind, arg |-> "aws_channel_shutdown"]>>
    ELSE <<[who |-> "bootstrap", kind |-> kind,
            arg |-> IF side = "client" THEN "setup_callback" ELSE "incoming_callback"]>>

\* the TLS handler invokes one of the callbacks of its options
TlsHandlerCalls ==
    /\ tramp.side # "none"
    /\ tramp.calls < MaxCalls
    /\ \E kind \in Wrapped(tramp.supplied), read \in {"null", "garbage"},
          err_code \in {AWS_OP_SUCCESS, "AWS_ERROR_OOM"} :
          /\ HandlerUserData(tramp.side) = InterpretsAs(tramp.side, kind) => read = "null"
          /\ kind # "on_negotiation_result" => err_code = AWS_OP_SUCCESS
          /\ tramp' = [tramp EXCEPT
                 !.calls = @ + 1,
                 !.log = @ \o <<[who |-> "trampoline", kind |-> kind,
                                 arg |-> HandlerUserData(tramp.side)]>>
                           \o Forwards(tramp.side, tramp.supplied, kind, read)
                           \o Acts(tramp.side, kind, err_code)]

vars == <<clientVars, serverVars, releaseVars, channelVars, countVars, tlsVars>>

Init == ClientInit /\ ServerInit /\ ReleaseInit /\ ChannelInit /\ CountInit /\ TrampolineInit

\* one client connection request
Next ==
    \/ NewSocketChannel /\ UNCHANGED <<serverVars, releaseVars, channelVars, countVars, tlsVars>>
    \/ OnHostResolved /\ UNCHANGED <<serverVars, releaseVars, channelVars, countVars, tlsVars>>
    \/ ScheduleAttempt /\ UNCHANGED <<serverVars, releaseVars, channelVars, countVars, tlsVars>>
    \/ AttemptConnection /\ UNCHANGED <<serverVars, releaseVars, channelVars, countVars, tlsVars>>
    \/ OnClientConnectionEstablished /\ UNCHANGED <<serverVars, releaseVars, channelVars, countVars, tlsVars>>
    \/ OnClientChannelSetupCompleted /\ UNCHANGED <<serverVars, releaseVars, channelVars, countVars, tlsVars>>
    \/ OnTlsNegotiationResult /\ UNCHANGED <<serverVars, releaseVars, channelVars, countVars, tlsVars>>
    \/ ChannelShutdown /\ UNCHANGED <<serverVars, releaseVars, channelVars, countVars, tlsVars>>
    \/ OnClientChannelShutdown /\ UNCHANGED <<serverVars, releaseVars, channelVars, countVars, tlsVars>>

Spec == Init /\ [][Next]_vars

\* one client connection request and the user's release of the client bootstrap
LifetimeNext ==
    \/ Next
    \/ aws_client_bootstrap_release /\ UNCHANGED <<serverVars, releaseVars, channelVars, countVars, tlsVars>>

SpecLifetime == Init /\ [][LifetimeNext]_vars

\* one listener and the connections it accepts
ServerNext ==
    \/ NewSocketListener /\ UNCHANGED <<clientVars, releaseVars, channelVars, countVars, tlsVars>>
    \/ OnServerConnectionResult /\ UNCHANGED <<clientVars, releaseVars, channelVars, countVars, tlsVars>>
    \/ OnServerChannelSetupCompleted /\ UNCHANGED <<clientVars, releaseVars, channelVars, countVars, tlsVars>>
    \/ OnTlsServerNegotiationResult /\ UNCHANGED <<clientVars, releaseVars, channelVars, countVars, tlsVars>>
    \/ ServerChannelShutdown /\ UNCHANGED <<clientVars, releaseVars, channelVars, countVars, tlsVars>>
    \/ OnServerChannelShutdown /\ UNCHANGED <<clientVars, releaseVars, channelVars, countVars, tlsVars>>
    \/ DestroySocketListener /\ UNCHANGED <<clientVars, releaseVars, channelVars, countVars, tlsVars>>
    \/ ListenerDestroyTask /\ UNCHANGED <<clientVars, releaseVars, channelVars, countVars, tlsVars>>

SpecServer == Init /\ [][ServerNext]_vars

\* one call of aws_client_bootstrap_release or aws_server_bootstrap_release
ReleaseNext ==
    \/ EnsureCleanupBegin /\ UNCHANGED <<clientVars, serverVars, channelVars, countVars, tlsVars>>
    \/ ScheduleCleanupTask /\ UNCHANGED <<clientVars, serverVars, channelVars, countVars, tlsVars>>
    \/ WaitPred /\ UNCHANGED <<clientVars, serverVars, channelVars, countVars, tlsVars>>
    \/ SpuriousWakeup /\ UNCHANGED <<clientVars, serverVars, channelVars, countVars, tlsVars>>
    \/ ReacquireMutex /\ UNCHANGED <<clientVars, serverVars, channelVars, countVars, tlsVars>>
    \/ EnsureCleanupEnd /\ UNCHANGED <<clientVars, serverVars, channelVars, countVars, tlsVars>>
    \/ CleanupTaskLock /\ UNCHANGED <<clientVars, serverVars, channelVars, countVars, tlsVars>>
    \/ CleanupTaskBody /\ UNCHANGED <<clientVars, serverVars, channelVars, countVars, tlsVars>>
    \/ CleanupTaskNotify /\ UNCHANGED <<clientVars, serverVars, channelVars, countVars, tlsVars>>

SpecRelease == Init /\ [][ReleaseNext]_vars

\* the same call where every thread keeps running: the calling thread goes on whenever
\* it can, every event loop keeps running its scheduled tasks (a task that needs the
\* mutex gets it although the waiter may take it again and again), and a loop whose
\* thread sits in the release call runs nothing (LoopThreadRuns)
SpecReleaseFair ==
    /\ SpecRelease
    /\ WF_vars(ScheduleCleanupTask /\ UNCHANGED <<clientVars, serverVars, channelVars, countVars, tlsVars>>)
    /\ WF_vars(WaitPred /\ UNCHANGED <<clientVars, serverVars, channelVars, countVars, tlsVars>>)
    /\ WF_vars(ReacquireMutex /\ UNCHANGED <<clientVars, serverVars, channelVars, countVars, tlsVars>>)
    /\ WF_vars(EnsureCleanupEnd /\ UNCHANGED <<clientVars, serverVars, channelVars, countVars, tlsVars>>)
    /\ SF_vars(CleanupTaskLock /\ UNCHANGED <<clientVars, serverVars, channelVars, countVars, tlsVars>>)
    /\ WF_vars(CleanupTaskBody /\ UNCHANGED <<clientVars, serverVars, channelVars, countVars, tlsVars>>)
    /\ WF_vars(CleanupTaskNotify /\ UNCHANGED <<clientVars, serverVars, channelVars, countVars, tlsVars>>)

\* one channel from aws_channel_new to the end of its shutdown
ChannelNext ==
    \/ ChannelNew /\ UNCHANGED <<clientVars, serverVars, releaseVars, hold, countVars, tlsVars>>
    \/ ChannelSetupTask /\ UNCHANGED <<clientVars, serverVars, releaseVars, hold, countVars, tlsVars>>
    \/ ChannelShutdownCall /\ UNCHANGED <<clientVars, serverVars, releaseVars, hold, countVars, tlsVars>>
    \/ ChannelShutdownTask /\ UNCHANGED <<clientVars, serverVars, releaseVars, hold, countVars, tlsVars>>
    \/ HandlerShutdownComplete /\ UNCHANGED <<clientVars, serverVars, releaseVars, hold, countVars, tlsVars>>

SpecChannel == Init /\ [][ChannelNext]_vars

\* one channel, its shutdown, the holds its users take and its destruction
HoldsNext ==
    \/ ChannelNext
    \/ ChannelAcquireHold /\ UNCHANGED <<clientVars, serverVars, releaseVars, countVars, tlsVars>>
    \/ ChannelReleaseHold /\ UNCHANGED <<clientVars, serverVars, releaseVars, countVars, tlsVars>>
    \/ ChannelDestroy /\ UNCHANGED <<clientVars, serverVars, releaseVars, countVars, tlsVars>>

SpecHolds == Init /\ [][HoldsNext]_vars

\* one channel from aws_channel_new on, and the messages its handlers send
MessagesNext ==
    \/ ChannelNew /\ UNCHANGED <<clientVars, serverVars, releaseVars, hold, countVars, tlsVars>>
    \/ ChannelSetupTask /\ UNCHANGED <<clientVars, serverVars, releaseVars, hold, countVars, tlsVars>>
    \/ SlotSendMessage /\ UNCHANGED <<clientVars, serverVars, releaseVars, hold, countVars, tlsVars>>

SpecMessages == Init /\ [][MessagesNext]_vars

CountNext ==
    \/ WideHostResolved /\ UNCHANGED <<clientVars, serverVars, releaseVars, channelVars, tlsVars>>
    \/ WideAttemptFails /\ UNCHANGED <<clientVars, serverVars, releaseVars, channelVars, tlsVars>>

SpecCount == Init /\ [][CountNext]_vars

TrampolineNext ==
    \/ InstallTlsCallbacks /\ UNCHANGED <<clientVars, serverVars, releaseVars, channelVars, countVars>>
    \/ TlsHandlerCalls /\ UNCHANGED <<clientVars, serverVars, releaseVars, channelVars, countVars>>

SpecTrampolines == Init /\ [][TrampolineNext]_vars

\* one use of the bootstrap API: a client request or a listener
BootstrapNext ==
    \/ srv_ret = "none" /\ Next
    \/ /\ ret = "none"
       /\ ServerNext
       /\ \A c \in ConnIdx : c > MaxAccepted => conns'[c] = conns[c]

SpecBootstrap == Init /\ [][BootstrapNext]_vars

(* ======================= properties of the client ===================== *)

\* number of attempts of the request: one per resolved address, one for a local socket
NumAttempts ==
    IF opts.domain = AWS_SOCKET_LOCAL THEN 1 ELSE Len(host_addresses)

Outstanding(i) == attempt[i] \in {"scheduled", "connecting"}

\* final states of an attempt that counted as a failure
FailedStates ==
    {"socket_alloc_failed", "socket_init_failed", "socket_connect_failed", "task_cancelled",
     "connect_error", "connect_error_no_address", "chosen_no_channel"}

\* the call returned success and nothing of the request is left to run
Quiescent ==
    /\ ret = "OK"
    /\ resolver_pc \in {"idle", "done"}
    /\ \A i \in AddrIdx : ~Outstanding(i)
    /\ channel.state \in {"none", "destroyed"}

\* the references on the client bootstrap its user still holds
UserReferences == IF cs.bootstrap_released THEN 0 ELSE 1

SetupDelivered == Len(cs.setup_log) > 0
SetupSucceeded == SetupDelivered /\ cs.setup_log[1].error_code = AWS_OP_SUCCESS

\* C1: for a call that returned success the setup callback is invoked exactly once:
\* never twice (the assertion !setup_called holds), and once everything the request
\* scheduled has completed it has been invoked.
C1_SetupExactlyOnce ==
    /\ Len(cs.setup_log) <= 1
    /\ "!setup_called" \notin cs.asserts
    /\ Quiescent => Len(cs.setup_log) = 1

\* C2: the shutdown callback is invoked if and only if the setup callback was earlier
\* invoked with error 0: at most once, never without or before a setup callback with
\* error 0, and once the request has run to its end after a setup callback with error 0.
C2_ShutdownIffSetupSuccess ==
    /\ Len(cs.shutdown_log) <= 1
    /\ Len(cs.shutdown_log) > 0 => SetupSucceeded
    /\ (Quiescent /\ SetupSucceeded) => Len(cs.shutdown_log) = 1

\* C3: every setup callback carries either error 0 and a channel, or a nonzero error
\* and a null channel.
C3_SetupErrorXorChannel ==
    \A k \in 1..Len(cs.setup_log) :
        (cs.setup_log[k].error_code = AWS_OP_SUCCESS) <=> (cs.setup_log[k].channel # NULL)

ReleasedByFailure ==
    1 + (IF Len(cs'.setup_log) > Len(cs.setup_log) THEN 1 ELSE 0)

Recorded(i) == \E r \in recorded : r.address = i

TaskFailures == {"socket_alloc_failed", "socket_init_failed", "socket_connect_failed"}

\* C6 (as claimed): every failure of an attempt task (socket allocation, socket init,
\* synchronous connect) reports the attempt's address to the resolver, increments
\* failed_count by one and releases one reference; every connect completion with a
\* nonzero error on a non-local domain reports the address; so when all attempts
\* have failed every raced address is recorded.
C6_EveryFailureRecorded ==
    /\ [][\A i \in AddrIdx :
             (attempt[i] = "scheduled" /\ attempt'[i] \in TaskFailures)
             => /\ \E r \in recorded' : r.address = i
                /\ cs'.failed_count = cs.failed_count + 1
                /\ cs'.ref_count = cs.ref_count - ReleasedByFailure]_vars
    /\ [][\A i \in AddrIdx :
             (/\ attempt[i] = "connecting"
              /\ attempt'[i] \in {"connect_error", "connect_error_no_address"}
              /\ opts.domain # AWS_SOCKET_LOCAL)
             => \E r \in recorded' : r.address = i]_vars
    /\ []((/\ NumAttempts > 0
           /\ opts.domain # AWS_SOCKET_LOCAL
           /\ \A j \in 1..NumAttempts :
                 attempt[j] \in TaskFailures \cup {"connect_error", "connect_error_no_address"})
          => \A j \in 1..NumAttempts : Recorded(j))

\* C6 (amended): of the failures of an attempt task only the synchronous connect
\* failure reports the attempt's address (with its resolved record type) to the
\* resolver, socket allocation and socket init failures report nothing; each of them
\* increments failed_count by one and releases one reference for the attempt. A
\* connect completion with a nonzero error on a non-local domain reports the address
\* unless the copy of the address string cannot be allocated. Every attempt that
\* failed in connect, synchronously or at completion with the address copied, is
\* recorded.
C6_FailureAccounting ==
    /\ [][\A i \in AddrIdx :
             (attempt[i] = "scheduled" /\ attempt'[i] \in TaskFailures)
             => /\ recorded' = IF attempt'[i] = "socket_connect_failed"
                               THEN recorded \cup {[address |-> i, record_type |-> host_addresses[i]]}
                               ELSE recorded
                /\ cs'.failed_count = cs.failed_count + 1
                /\ cs'.ref_count = cs.ref_count - ReleasedByFailure]_vars
    /\ [][\A i \in AddrIdx :
             (attempt[i] = "connecting" /\ attempt'[i] \in {"connect_error", "connect_error_no_address"})
             => /\ cs'.failed_count = cs.failed_count + 1
                /\ cs'.ref_count = cs.ref_count - ReleasedByFailure
                /\ IF opts.domain # AWS_SOCKET_LOCAL /\ attempt'[i] = "connect_error"
                   THEN (\E r \in recorded' : r.address = i)
                   ELSE recorded' = recorded]_vars
    /\ [](\A i \in AddrIdx :
             (\/ attempt[i] = "socket_connect_failed"
              \/ (attempt[i] = "connect_error" /\ opts.domain # AWS_SOCKET_LOCAL))
             => Recorded(i))

\* both attempts of a race failed in connect, one synchronously and one at completion,
\* and both addresses were given to the resolver
C6_Witness ==
    /\ NumAttempts = 2
    /\ \E i, j \in 1..2 : attempt[i] = "socket_connect_failed" /\ attempt[j] = "connect_error"
    /\ Recorded(1) /\ Recorded(2)
    /\ cs.failed_count = 2

\* C7: when the resolver reports an error, the setup callback is invoked exactly once
\* with that error and a null channel, no attempt is scheduled, no socket or channel
\* is created, and the connection state is freed with its bootstrap reference released.
C7_ResolutionFailure ==
    resolve_error # AWS_OP_SUCCESS
    => /\ cs.setup_log = <<[error_code |-> resolve_error, channel |-> NULL]>>
       /\ cs.shutdown_log = <<>>
       /\ \A i \in AddrIdx : attempt[i] = "none" /\ sock[i] = "none"
       /\ channel.state = "none"
       /\ cs.ref_count = 0 /\ cs.mem = "freed" /\ cs.args_freed = 1
       /\ cs.bootstrap_ref_count = UserReferences /\ cs.bootstrap_destroyed = 1 - UserReferences

\* the resolver callback ran with an error
C7_Witness ==
    /\ resolve_error # AWS_OP_SUCCESS
    /\ resolver_pc = "done"
    /\ cs.setup_called

\* C8: when the call returns an error synchronously, neither callback is invoked and
\* nothing stays held: the connection state's reference count is zero, the bootstrap's
\* reference count is what it was before the call, no socket is left open and nothing
\* was submitted or scheduled.
C8_SynchronousFailure ==
    ret = "ERR"
    => /\ cs.setup_log = <<>> /\ cs.shutdown_log = <<>>
       /\ cs.ref_count = 0
       /\ cs.mem = (IF opts.fail \in {"invalid_options", "args_alloc"} THEN "unallocated" ELSE "freed")
       /\ cs.bootstrap_ref_count = 1 /\ cs.bootstrap_destroyed = 0
       /\ \A i \in AddrIdx : attempt[i] = "none" /\ sock[i] \in {"none", "freed"}
       /\ resolver_pc = "idle"
       /\ channel.state = "none"

\* the call failed in the connect of a local socket, after the second reference was taken
C8_Witness ==
    /\ ret = "ERR"
    /\ opts.fail = "socket_connect"
    /\ sock[1] = "freed"

\* C9 (as claimed): with TLS configured the setup callback is never delivered before
\* the negotiation result arrives; when the result reports an error E the channel is
\* shut down with E, the setup callback is delivered exactly once with E and a null
\* channel when the shutdown completes, and the shutdown callback is never delivered.
C9_SetupAfterNegotiation ==
    /\ (cs.use_tls /\ channel.state # "none" /\ SetupDelivered)
       => tls.state \in {"negotiated", "failed", "failed_late"}
    /\ tls.state \in {"failed", "failed_late"}
       => /\ channel.state \in {"shutting_down", "destroyed"}
          /\ channel.error_code = tls.err_code
          /\ cs.shutdown_log = <<>>
          /\ channel.state = "destroyed"
             => cs.setup_log = <<[error_code |-> tls.err_code, channel |-> NULL]>>

\* C9 (amended): with TLS configured the setup callback is never delivered with error 0
\* before a negotiation result reporting success has arrived (it is delivered earlier,
\* with a nonzero error and a null channel, when the channel shuts down before the
\* negotiation finishes); when the result reports an error E, aws_channel_shutdown is
\* called with E, the setup callback is delivered exactly once, with a nonzero error
\* and a null channel, when the shutdown completes, the error being E unless a
\* shutdown with another code was already in progress, and the shutdown callback is
\* never delivered.
C9_NegotiationGatesSuccess ==
    /\ (cs.use_tls /\ channel.state # "none" /\ SetupSucceeded) => tls.state = "negotiated"
    /\ (cs.use_tls /\ channel.state # "none" /\ SetupDelivered /\ tls.state \in {"none", "negotiating"})
       => (cs.setup_log[1].error_code # AWS_OP_SUCCESS /\ cs.setup_log[1].channel = NULL)
    /\ tls.state \in {"failed", "failed_late"}
       => /\ channel.state \in {"shutting_down", "destroyed"}
          /\ tls.state = "failed" => channel.error_code = tls.err_code
          /\ cs.shutdown_log = <<>>
          /\ channel.state = "shutting_down" => cs.setup_log = <<>>
          /\ channel.state = "destroyed"
             => /\ Len(cs.setup_log) = 1
                /\ cs.setup_log[1].channel = NULL
                /\ cs.setup_log[1].error_code \notin {AWS_OP_SUCCESS}
                /\ tls.state = "failed" => cs.setup_log[1].error_code = tls.err_code

\* the negotiation failed on a running channel and the shutdown it caused completed
C9_Witness ==
    /\ tls.state = "failed"
    /\ channel.state = "destroyed"
    /\ SetupDelivered
    /\ cs.setup_log[1].error_code = tls.err_code


\* C14: once every scheduled attempt task has run, every issued connect has
\* completed, the setup callback has been delivered and the winning channel (if any)
\* has completed shutdown, the connection state's reference count is zero: the state
\* is freed exactly once and its bootstrap reference is released exactly once, also
\* when aws_channel_new failed on the winning socket
C14_StateReleasedAtEnd ==
    /\ cs.args_freed <= 1
    /\ (Quiescent /\ SetupDelivered)
       => /\ cs.ref_count = 0
          /\ cs.mem = "freed" /\ cs.args_freed = 1
          /\ cs.bootstrap_ref_count = UserReferences

\* C15: a bootstrap is destroyed exactly once, when its reference count reaches zero,
\* and never while a connection state that points to it is alive: the connection state
\* acquires the bootstrap on its own zero-to-one transition and releases it only on its
\* one-to-zero transition, so the user's release while the request is in flight does
\* not free the bootstrap, and every user callback receives a bootstrap that has not
\* been freed
C15_BootstrapLifetime ==
    /\ [](/\ cs.bootstrap_destroyed <= 1
          /\ cs.bootstrap_destroyed = 1 => (cs.bootstrap_ref_count = 0 /\ cs.mem # "live")
          /\ ~cs.bootstrap_uaf
          /\ srv.bootstrap_destroyed <= 1
          /\ srv.bootstrap_destroyed = 1 => (srv.bootstrap_ref_count = 0 /\ srv.mem # "live"))
    /\ [][/\ cs'.bootstrap_destroyed > cs.bootstrap_destroyed
             => (cs.bootstrap_ref_count = 1 /\ cs'.bootstrap_ref_count = 0)
          /\ cs'.bootstrap_ref_count > cs.bootstrap_ref_count
             => (cs.ref_count = 0 /\ cs'.ref_count > 0)
          /\ (cs'.bootstrap_ref_count < cs.bootstrap_ref_count
              /\ cs'.bootstrap_released = cs.bootstrap_released)
             => (cs.ref_count > 0 /\ cs'.ref_count = 0)]_vars

(* ======================= properties of the server ===================== *)

\* the connection's accept event has run to its end: no channel was made, the
\* channel's setup failed, or the channel completed its shutdown
ConnTerminated(c) ==
    conns[c].state \in {"accept_failed", "accept_cleanup", "setup_error", "done"}

\* C10: for every accept event reported to the listener the user's incoming
\* callback is invoked exactly once: never twice (the assertion !incoming_called
\* never fails), once as soon as a channel without TLS is set up or the TLS
\* negotiation succeeded, and never zero times once the accept was refused or
\* the connection's channel has terminated
C10_IncomingExactlyOnce ==
    \A c \in ConnIdx :
        /\ Len(conns[c].incoming_log) <= 1
        /\ "!incoming_called" \notin conns[c].asserts
        /\ ConnTerminated(c) => Len(conns[c].incoming_log) = 1
        /\ conns[c].tls = "negotiated" => Len(conns[c].incoming_log) = 1
        /\ conns[c].state = "active" /\ ~srv.use_tls => Len(conns[c].incoming_log) = 1
        /\ Len(conns[c].shutdown_log) > 0 => Len(conns[c].incoming_log) = 1

\* one connection whose negotiation succeeded and whose channel then shut down, and
\* one whose channel shut down before the negotiation finished
C10_Witness ==
    /\ conns[1].state = "done" /\ conns[1].tls = "negotiated"
    /\ conns[1].incoming_log = <<[error_code |-> AWS_OP_SUCCESS, channel |-> CHANNEL]>>
    /\ Len(conns[1].shutdown_log) = 1
    /\ conns[2].state = "done" /\ conns[2].tls = "negotiating"
    /\ Len(conns[2].incoming_log) = 1 /\ conns[2].incoming_log[1].channel = NULL
    /\ conns[2].shutdown_log = <<>>


\* C11: when an accepted connection's channel completes shutdown exactly one user
\* callback is invoked: the incoming callback with a nonzero error and a null channel
\* if it had not been delivered for that channel, otherwise the shutdown callback with
\* the channel; so the shutdown callback is invoked at most once, and only for a
\* channel an incoming callback with error 0 handed to the user
C11_ShutdownNotifiesOnce ==
    /\ [][\A c \in ConnIdx :
             (conns[c].state = "shutting_down" /\ conns'[c].state = "done")
             => IF ~conns[c].incoming_called
                THEN /\ Len(conns'[c].incoming_log) = Len(conns[c].incoming_log) + 1
                     /\ conns'[c].incoming_log[Len(conns'[c].incoming_log)].error_code # AWS_OP_SUCCESS
                     /\ conns'[c].incoming_log[Len(conns'[c].incoming_log)].channel = NULL
                     /\ conns'[c].shutdown_log = conns[c].shutdown_log
                ELSE /\ conns'[c].incoming_log = conns[c].incoming_log
                     /\ Len(conns'[c].shutdown_log) = Len(conns[c].shutdown_log) + 1
                     /\ conns'[c].shutdown_log[Len(conns'[c].shutdown_log)].channel = CHANNEL]_vars
    /\ [](\A c \in ConnIdx :
             /\ Len(conns[c].shutdown_log) <= 1
             /\ Len(conns[c].shutdown_log) = 1
                => /\ conns[c].state = "done"
                   /\ conns[c].incoming_log = <<[error_code |-> AWS_OP_SUCCESS, channel |-> CHANNEL]>>)

\* one channel shut down after it was handed to the user, another one shut down with
\* error 0 before it was
C11_Witness ==
    \E c, d \in ConnIdx :
        /\ conns[c].state = "done" /\ Len(conns[c].shutdown_log) = 1
        /\ conns[c].incoming_log = <<[error_code |-> AWS_OP_SUCCESS, channel |-> CHANNEL]>>
        /\ conns[d].state = "done" /\ conns[d].shutdown_log = <<>>
        /\ conns[d].incoming_log = <<[error_code |-> AWS_ERROR_UNKNOWN, channel |-> NULL]>>


\* the listener was created and then destroyed, and every connection it accepted has
\* run to its end
ListenerDrained ==
    /\ srv_ret = "listener"
    /\ listener = "cleaned_up"
    /\ \A c \in ConnIdx : conns[c].state = "none" \/ ConnTerminated(c)

\* C12: for a listener that was created and on which destroy_socket_listener is called
\* once, the destroy callback is invoked exactly once, at the moment the server
\* state's reference count goes from one to zero, and not before the listener-destroy
\* task has run and every accepted connection has released its reference
C12_DestroyCallbackOnce ==
    /\ [][(srv_ret = "listener" /\ srv'.destroy_log > srv.destroy_log)
           => /\ srv.ref_count = 1 /\ srv'.ref_count = 0
              /\ srv'.destroy_log = srv.destroy_log + 1]_vars
    /\ []((srv_ret = "listener" /\ srv.destroy_callback)
           => /\ srv.destroy_log <= 1
              /\ srv.destroy_log = 1 => ListenerDrained
              /\ ListenerDrained => srv.destroy_log = 1)


\* C13: when acceptance reports an error, or per-channel allocation, event-loop
\* assignment or channel creation fails after acceptance, the incoming callback is
\* invoked with a nonzero error and a null channel, no channel exists for the
\* connection afterwards, the new socket (if any) is cleaned up and freed, and the
\* reference the handler acquired is released: the reference count is unchanged
C13_AcceptFailure ==
    /\ [][\A c \in ConnIdx :
             (conns[c].state = "none" /\ conns'[c].state \in {"accept_failed", "accept_cleanup"})
             => /\ Len(conns'[c].incoming_log) = 1
                /\ conns'[c].incoming_log[1].error_code # AWS_OP_SUCCESS
                /\ conns'[c].incoming_log[1].channel = NULL
                /\ conns'[c].shutdown_log = <<>>
                /\ conns'[c].data \in {"none", "freed"}
                /\ conns'[c].sock = (IF conns'[c].state = "accept_cleanup" THEN "freed" ELSE "none")
                /\ srv'.ref_count = srv.ref_count
                /\ srv'.mem = "live" /\ srv'.destroy_log = srv.destroy_log
                /\ srv'.bootstrap_ref_count = srv.bootstrap_ref_count]_vars
    /\ [][\A c \in ConnIdx :
             conns[c].state \in {"accept_failed", "accept_cleanup"} => conns'[c] = conns[c]]_vars

\* an accept reported an error and another accepted socket could not be given a channel
C13_Witness ==
    \E c, d \in ConnIdx :
        /\ conns[c].state = "accept_failed"
        /\ conns[d].state = "accept_cleanup" /\ conns[d].data = "freed" /\ conns[d].sock = "freed"
        /\ srv.ref_count = 1

(* ================= properties of the bootstrap release ================ *)

\* the cleanup task of loop j has run: its flag is set and the thread-local state of
\* loop j was cleaned up once
CleanupRan(j) == el_task[j].invoked /\ el_task[j].cleaned = 1

\* C16: the release returns, and the user's reference is dropped, only after the
\* cleanup task has run on every one of the K loops of the group; exactly K tasks
\* are scheduled and run, one per loop; the task of loop i+1 is scheduled only after
\* the task of loop i has set its invoked flag.
C16_CleanupBeforeRelease ==
    /\ (rel.pc = "returned" \/ rel.released) =>
            /\ \A j \in LoopIdx : j <= rel.len => CleanupRan(j) /\ el_task[j].scheduled = 1
            /\ \A j \in LoopIdx : j > rel.len => el_task[j] = NoTask
    /\ \A j \in LoopIdx : el_task[j].scheduled <= 1 /\ el_task[j].cleaned <= 1
    /\ \A j \in LoopIdx : j > 1 /\ el_task[j].scheduled > 0 => el_task[j - 1].invoked
    /\ rel.bootstrap_destroyed > 0 => rel.released

\* a release over the largest group has returned
C16_Witness ==
    /\ rel.pc = "returned"
    /\ rel.len = MaxLoops
    /\ rel.released
    /\ \A j \in LoopIdx : CleanupRan(j)

\* the thread inside the release call is suspended on the condition variable
Suspended == rel.pc \in {"sleeping", "waking"}

\* C17 as stated: no bootstrap operation, the two release functions included, ever
\* suspends the calling thread to wait for work done by another thread.
C17_NothingBlocks == ~Suspended

\* C17: the release functions do suspend the calling thread, and only in the wait of
\* s_ensure_thread_local_state_is_cleaned_up: the thread sleeps only for a loop of the
\* group whose cleanup task it has scheduled, without holding the mutex and before
\* the reference is dropped; it goes to sleep only while that task's invoked flag
\* is unset, and it leaves the wait for a loop only with the flag set.
C17_BlocksOnlyForCleanup ==
    /\ [](Suspended =>
            /\ rel.i \in 1..rel.len
            /\ el_task[rel.i].scheduled = 1
            /\ rel.mutex # "caller"
            /\ ~rel.released)
    /\ [][(~Suspended /\ Suspended') => ~el_task[rel.i].invoked]_vars
    /\ [][(rel.pc # "idle" /\ rel'.i # rel.i) =>
            rel'.i = rel.i + 1 /\ el_task[rel.i].invoked]_vars

\* the caller sleeps for the last loop of the largest group, whose task has not run
C17_Witness ==
    /\ rel.pc = "sleeping"
    /\ rel.len = MaxLoops
    /\ rel.i = rel.len
    /\ ~el_task[rel.i].invoked

(* ====================== properties of the channel ===================== *)

\* the slots of the channel's pipeline
Pipeline == 1..aws_channel.n

\* C18: in a shutdown each handler's shutdown is invoked at most once per direction,
\* and once the shutdown is over exactly once per direction; a handler is shut down
\* for READ only after every handler to its left has completed READ; a handler is
\* shut down for WRITE only after every handler, the rightmost included, has
\* completed READ and every handler to its right has completed WRITE.
C18_ShutdownOrder ==
    /\ \A i \in SlotIdx :
        /\ handlers[i].read_calls = (IF handlers[i].read = "none" THEN 0 ELSE 1)
        /\ handlers[i].write_calls = (IF handlers[i].write = "none" THEN 0 ELSE 1)
        /\ (handlers[i].read # "none" \/ handlers[i].write # "none") => i \in Pipeline
    /\ \A i \in Pipeline : handlers[i].read # "none" =>
            \A j \in Pipeline : j < i => handlers[j].read = "complete"
    /\ \A i \in Pipeline : handlers[i].write # "none" =>
            /\ \A j \in Pipeline : handlers[j].read = "complete"
            /\ \A j \in Pipeline : j > i => handlers[j].write = "complete"
    /\ aws_channel.shutdown_state = "Completed" =>
            \A i \in Pipeline : handlers[i].read = "complete" /\ handlers[i].write = "complete"

\* the shutdown of the longest pipeline is over
C18_Witness ==
    /\ aws_channel.shutdown_state = "Completed"
    /\ aws_channel.n = MaxSlots
    /\ \A i \in Pipeline : handlers[i].read_calls = 1 /\ handlers[i].write_calls = 1

\* C19: on_setup_completed is invoked at most once and before any handler is shut
\* down; on_shutdown_completed is invoked at most once, only after on_setup_completed,
\* only after the leftmost slot (if the channel has slots) has completed its WRITE
\* shutdown, and with the error code of the first aws_channel_shutdown call, whatever
\* the later calls passed.
C19_SetupAndShutdownCallbacks ==
    /\ Len(aws_channel.setup_log) <= 1
    /\ Len(aws_channel.shutdown_log) <= 1
    /\ aws_channel.shutdown_state # "NotStarted" => Len(aws_channel.setup_log) = 1
    /\ Len(aws_channel.shutdown_log) = 1 =>
            /\ Len(aws_channel.setup_log) = 1
            /\ aws_channel.n > 0 => aws_channel.left_write_done /\ handlers[1].write = "complete"
            /\ aws_channel.shutdown_calls > 0
            /\ aws_channel.shutdown_log[1] = aws_channel.first_error

\* the shutdown of the longest pipeline is over, and a later aws_channel_shutdown
\* call passed another error code than the first
C19_Witness ==
    /\ Len(aws_channel.shutdown_log) = 1
    /\ aws_channel.n = MaxSlots
    /\ aws_channel.shutdown_calls > 1
    /\ aws_channel.last_error # aws_channel.first_error
    /\ aws_channel.shutdown_log[1] = aws_channel.first_error

\* C20: a READ send whose payload is longer than the right neighbor's window_size
\* fails with the exceeds-window error, changes nothing of the neighbor (its
\* window_size, its count of processed messages) and leaves the message with the
\* sender; any other READ send succeeds, takes exactly the payload length off the
\* neighbor's window_size, invokes its process_read_message and hands the message
\* to the recipient; window_size is never below zero.
C20_WindowEnforced ==
    /\ [](\A i \in SlotIdx : handlers[i].window_size >= 0)
    /\ [][(aws_channel'.sends = aws_channel.sends + 1 /\ msg'.dir = AWS_CHANNEL_DIR_READ) =>
            /\ msg'.to = msg'.from + 1
            /\ IF handlers[msg'.to].window_size < msg'.len
               THEN /\ msg'.ret = AWS_IO_CHANNEL_READ_WOULD_EXCEED_WINDOW
                    /\ handlers' = handlers
                    /\ msg'.owner = "sender"
               ELSE /\ msg'.ret = AWS_OP_SUCCESS
                    /\ handlers'[msg'.to].window_size = handlers[msg'.to].window_size - msg'.len
                    /\ handlers'[msg'.to].processed = handlers[msg'.to].processed + 1
                    /\ msg'.owner = "recipient"]_vars

\* a message was rejected by a slot that had accepted an earlier one
C20_Witness ==
    /\ msg.dir = AWS_CHANNEL_DIR_READ
    /\ msg.ret = AWS_IO_CHANNEL_READ_WOULD_EXCEED_WINDOW
    /\ msg.owner = "sender"
    /\ msg.len > handlers[msg.to].window_size
    /\ handlers[msg.to].processed = 1

\* C21: the channel's memory is freed exactly when aws_channel_destroy has been called
\* and no hold is outstanding: never with a hold outstanding, never before the destroy,
\* at most once, and by the call that makes both conditions true, which is the release
\* of the final hold when the destroy came first.
C21_FreedOnDestroyAndNoHolds ==
    /\ [](/\ hold.freed <= 1
          /\ (hold.freed = 1) = (hold.destroy_called /\ hold.count = 0)
          /\ hold.count >= 0)
    /\ [][hold'.freed # hold.freed =>
            /\ hold.freed = 0
            /\ \/ /\ hold'.freed_by = "aws_channel_release_hold"
                  /\ hold.destroy_called /\ hold'.destroy_called
                  /\ hold.count = 1 /\ hold'.count = 0
               \/ /\ hold'.freed_by = "aws_channel_destroy"
                  /\ ~hold.destroy_called /\ hold'.destroy_called
                  /\ hold.count = 0 /\ hold'.count = 0]_vars

\* the release of the last of several holds, after the destroy, freed the channel
C21_Witness ==
    /\ hold.freed = 1
    /\ hold.freed_by = "aws_channel_release_hold"
    /\ hold.acquired = MaxCalls
    /\ hold.destroy_called

(* ============ properties of the 8-bit counters ============== *)

\* C28: the 8-bit addresses_count equals the length of the resolved list, failed_count
\* never exceeds it, and the setup callback of a request whose attempts all fail is
\* delivered only when every one of them has failed, once.
C28_CountersMatchListLength ==
    wide.pc = "racing" =>
        /\ wide.args.addresses_count = wide.host_addresses_len
        /\ wide.args.failed_count <= wide.args.addresses_count
        /\ Len(wide.args.setup_log) > 0 => wide.tasks = 0
        /\ "!setup_called" \notin wide.args.asserts

(* ================== more properties of the client ===================== *)

\* the attempt that won the race and then got no channel from aws_channel_new
WinnerWithoutChannel(att) == \E i \in AddrIdx : att[i] = "chosen_no_channel"

C23_FailureBranchCountsAndReleases ==
    [][\A i \in AddrIdx :
          (attempt[i] = "connecting" /\
           attempt'[i] \in {"late", "connect_error", "connect_error_no_address"}) =>
              /\ sock'[i] = "freed"
              /\ cs'.failed_count = (cs.failed_count + 1) % UINT8_MOD
              /\ cs'.ref_count = cs.ref_count - 1 - (Len(cs'.setup_log) - Len(cs.setup_log))]_vars

\* C24: attempt tasks are scheduled all-or-nothing. When preparing a task fails in
\* s_on_host_resolved no attempt is scheduled and no socket created, the setup
\* callback is delivered once with the allocation error and no channel, and the
\* connection state is released; otherwise, when the scheduling loop ends, every one
\* of the n attempts was scheduled and the state holds n references more than the
\* one it had when the resolver called back.
C24_AllOrNothingScheduling ==
    /\ [][(resolver_pc = "pending" /\ resolver_pc' = "done" /\ resolve_error' = AWS_OP_SUCCESS) =>
             /\ \A i \in AddrIdx : attempt'[i] = "none" /\ sock'[i] = "none"
             /\ Len(cs'.setup_log) = 1
             /\ cs'.setup_log[1].error_code \in ErrorCodes
             /\ cs'.setup_log[1].channel = NULL
             /\ cs'.ref_count = 0 /\ cs'.mem = "freed" /\ cs'.args_freed = 1]_vars
    /\ []((resolver_pc = "done" /\ resolve_error = AWS_OP_SUCCESS /\ sched_i = 0) =>
             \A i \in AddrIdx : attempt[i] = "none" /\ sock[i] = "none")
    /\ [][(resolver_pc = "scheduling" /\ resolver_pc' = "done") =>
             /\ \A i \in 1..Len(host_addresses) : attempt'[i] # "none"
             /\ cs'.ref_count = 1 + Len(host_addresses)]_vars

\* C25: the non-atomic fields of the connection state are used by one thread at a
\* time: while the resolver's thread is inside the scheduling loop of
\* s_on_host_resolved (it took the reference of one task and has yet to take the
\* next), no handler of the connect loop changes ref_count, failed_count,
\* connection_chosen or setup_called.
C25_NoConcurrentAccess ==
    [][(resolver_pc = "scheduling" /\ resolver_pc' = "scheduling" /\ sched_i' = sched_i) =>
          /\ cs'.ref_count = cs.ref_count
          /\ cs'.failed_count = cs.failed_count
          /\ cs'.connection_chosen = cs.connection_chosen
          /\ cs'.setup_called = cs.setup_called]_vars

\* C26: between handlers, the reference count of the connection state of an accepted
\* request is one for the state itself until the setup callback was delivered, plus
\* one per scheduled attempt whose task or connect completion is still to run, plus
\* one for the winner's channel until its shutdown completed.
C26_RefCountAccounting ==
    ret = "OK" =>
        cs.ref_count = (IF SetupDelivered THEN 0 ELSE 1)
                       + Cardinality({i \in AddrIdx : Outstanding(i)})
                       + (IF channel.state \in {"none", "destroyed"} THEN 0 ELSE 1)

\* C27: no handler of the client uses the connection state after it was freed, and
\* s_client_connection_args_release is never called with ref_count already zero.
C27_NoUseAfterFreeNoUnderflow ==
    /\ ~cs.uaf
    /\ "ref_count > 0" \notin cs.asserts
    /\ cs.args_freed <= 1

\* C29: every address reported to aws_host_resolver_record_connection_failure carries
\* the record type of the resolved address its attempt used, whatever domain the
\* caller's socket options name.
C29_RecordedTypeIsResolvedType ==
    \A r \in recorded : r.record_type = host_addresses[r.address]

\* C30: the client's pipeline is the socket handler, then the TLS slot when TLS is
\* configured, then the ALPN slot to its right when an ALPN callback is installed, and
\* the negotiation starts only on the complete pipeline. Without TLS the setup
\* callback is delivered with the channel by the step that completes the setup; with
\* TLS and no ALPN callback it is delivered with the channel by the step that reports
\* the successful negotiation, and the user does not get the channel before.
C30_PipelineOrderAndSetupDelivery ==
    /\ [](slots \in {<<>>, <<"socket">>, <<"socket", "tls">>, <<"socket", "tls", "alpn">>})
    /\ []((Len(slots) >= 2 => cs.use_tls) /\ (Len(slots) = 3 => cs.on_protocol_negotiated))
    /\ [](tls.state # "none" =>
             slots = IF cs.on_protocol_negotiated THEN <<"socket", "tls", "alpn">>
                     ELSE <<"socket", "tls">>)
    /\ [][(channel.state = "setup_pending" /\ channel'.state = "active" /\ ~cs.use_tls) =>
             /\ slots' = <<"socket">>
             /\ cs'.setup_log = <<[error_code |-> AWS_OP_SUCCESS, channel |-> CHANNEL]>>]_vars
    /\ [][(tls.state = "negotiating" /\ tls'.state = "negotiated" /\ ~cs.on_protocol_negotiated) =>
             /\ cs.setup_log = <<>>
             /\ cs'.setup_log = <<[error_code |-> AWS_OP_SUCCESS, channel |-> CHANNEL]>>]_vars
    /\ []((cs.use_tls /\ ~cs.on_protocol_negotiated /\
             \E k \in 1..Len(cs.setup_log) : cs.setup_log[k].channel = CHANNEL) =>
                tls.state = "negotiated")

\* TLS without ALPN: the negotiation succeeded on the pipeline socket, tls and the
\* user got the channel
C30_Witness ==
    /\ cs.use_tls /\ ~cs.on_protocol_negotiated
    /\ slots = <<"socket", "tls">>
    /\ tls.state = "negotiated"
    /\ SetupSucceeded
    /\ cs.setup_log[1].channel = CHANNEL

\* the client channel's setup failed: it is shutting down or gone although neither
\* the user got the channel nor a TLS negotiation was started
ClientSetupFailed ==
    /\ channel.state \in {"shutting_down", "destroyed"}
    /\ tls.state = "none"
    /\ \A k \in 1..Len(cs.setup_log) : cs.setup_log[k].channel # CHANNEL

\* C31: when the client channel's setup reports an error or a step of the pipeline's
\* construction fails, the channel is shut down with the captured nonzero error and
\* nothing is delivered by that step; the step that completes the shutdown delivers
\* the setup callback, once, with that error and no channel; no shutdown callback
\* is delivered.
C31_SetupFailureReportedAtShutdown ==
    /\ [][(channel.state = "setup_pending" /\ channel'.state = "shutting_down") =>
             /\ channel'.error_code # AWS_OP_SUCCESS
             /\ cs'.setup_log = cs.setup_log
             /\ cs'.shutdown_log = cs.shutdown_log]_vars
    /\ [][(ClientSetupFailed /\ channel.state = "shutting_down" /\ channel'.state = "destroyed") =>
             /\ cs.setup_log = <<>>
             /\ cs'.setup_log = <<[error_code |-> channel.error_code, channel |-> NULL]>>
             /\ channel.error_code # AWS_OP_SUCCESS]_vars
    /\ []((ClientSetupFailed /\ channel.state = "destroyed") =>
             /\ Len(cs.setup_log) = 1
             /\ cs.setup_log[1].error_code # AWS_OP_SUCCESS
             /\ cs.setup_log[1].channel = NULL
             /\ cs.shutdown_log = <<>>)

\* the ALPN step of the construction failed and the shutdown has completed
C31_Witness ==
    /\ ClientSetupFailed
    /\ channel.state = "destroyed"
    /\ cs.use_tls /\ cs.on_protocol_negotiated
    /\ slots = <<"socket", "tls">>
    /\ Len(cs.setup_log) = 1
    /\ cs.setup_log[1].error_code = channel.error_code

\* C32: when a channel completes its shutdown before the user was told of it (client:
\* setup callback not called; server: incoming callback not called), that callback
\* gets the shutdown's error code when it is nonzero and AWS_ERROR_UNKNOWN when it is
\* zero, and no channel.
C32_ShutdownErrorOrUnknown ==
    /\ [][(channel.state = "shutting_down" /\ channel'.state = "destroyed" /\ ~cs.setup_called) =>
             cs'.setup_log = Append(cs.setup_log,
                 [error_code |-> IF channel.error_code # AWS_OP_SUCCESS
                                 THEN channel.error_code ELSE AWS_ERROR_UNKNOWN,
                  channel |-> NULL])]_vars
    /\ [][\A c \in ConnIdx :
             (conns[c].state = "shutting_down" /\ conns'[c].state = "done" /\
              ~conns[c].incoming_called) =>
                conns'[c].incoming_log = Append(conns[c].incoming_log,
                    [error_code |-> IF conns[c].error_code # AWS_OP_SUCCESS
                                    THEN conns[c].error_code ELSE AWS_ERROR_UNKNOWN,
                     channel |-> NULL])]_vars

\* a client channel was shut down with error code zero during its TLS negotiation
C32_Witness ==
    /\ channel.state = "destroyed"
    /\ channel.error_code = AWS_OP_SUCCESS
    /\ tls.state = "negotiating"
    /\ cs.setup_log = <<[error_code |-> AWS_ERROR_UNKNOWN, channel |-> NULL]>>

\* C33: a request over a local-domain socket never involves the resolver: one socket,
\* one connect, addresses_count = 1, two references on the connection state while
\* the connect is outstanding, and a failed connect is reported by the setup
\* callback and never to aws_host_resolver_record_connection_failure.
C33_LocalDomainSingleAttempt ==
    /\ []((ret = "OK" /\ opts.domain = AWS_SOCKET_LOCAL) =>
             /\ resolver_pc = "idle" /\ host_addresses = <<>>
             /\ cs.addresses_count = 1
             /\ \A i \in AddrIdx : i > 1 => attempt[i] = "none" /\ sock[i] = "none"
             /\ recorded = {}
             /\ attempt[1] = "connecting" => cs.ref_count = 2 /\ sock[1] = "open")
    /\ [][(opts.domain = AWS_SOCKET_LOCAL /\ attempt[1] = "connecting" /\
           attempt'[1] \in {"connect_error", "connect_error_no_address"}) =>
             /\ Len(cs'.setup_log) = 1
             /\ cs'.setup_log[1].error_code \in ErrorCodes
             /\ cs'.setup_log[1].channel = NULL
             /\ sock'[1] = "freed"]_vars

\* the connect of a local-domain request failed
C33_Witness ==
    /\ ret = "OK" /\ opts.domain = AWS_SOCKET_LOCAL
    /\ attempt[1] = "connect_error"
    /\ Len(cs.setup_log) = 1 /\ cs.setup_log[1].channel = NULL
    /\ recorded = {}

\* C34: when the channel of an accepted connection reports a setup error, the handler
\* frees the accepted socket, delivers the incoming callback once with the error and
\* no channel, delivers no shutdown callback, frees the per-channel state and releases
\* one reference on the server state, and reads nothing of the per-channel state
\* after freeing it.
C34_ServerSetupError ==
    /\ [](\A c \in ConnIdx : conns[c].state = "setup_error" =>
             /\ conns[c].sock = "freed"
             /\ conns[c].data = "freed"
             /\ Len(conns[c].incoming_log) = 1
             /\ conns[c].incoming_log[1].error_code # AWS_OP_SUCCESS
             /\ conns[c].incoming_log[1].channel = NULL
             /\ conns[c].shutdown_log = <<>>
             /\ ~conns[c].uaf)
    /\ [][\A c \in ConnIdx :
             (conns[c].state = "setup_pending" /\ conns'[c].state = "setup_error") =>
                srv'.ref_count = srv.ref_count - 1]_vars

\* C35: on a TLS listener the incoming callback is not delivered at the channel's
\* setup; it is delivered with error 0 and the channel only when the negotiation
\* result reports success; when the result reports an error the channel is shut down
\* with that error and the incoming callback is delivered with that error and no
\* channel. Without TLS the incoming callback is delivered with the channel when the
\* socket handler is installed.
C35_IncomingAfterNegotiation ==
    \A c \in ConnIdx :
        LET cd == conns[c] IN
        /\ (srv.use_tls /\ cd.state = "active" /\ cd.tls = "negotiating") => cd.incoming_log = <<>>
        /\ (srv.use_tls /\ \E k \in 1..Len(cd.incoming_log) : cd.incoming_log[k].channel = CHANNEL) =>
               /\ cd.tls = "negotiated"
               /\ cd.incoming_log = <<[error_code |-> AWS_OP_SUCCESS, channel |-> CHANNEL]>>
        /\ cd.tls \in {"failed", "failed_late"} =>
               /\ cd.state \in {"shutting_down", "done"}
               /\ cd.error_code = cd.tls_err_code
               /\ cd.state = "done" =>
                      cd.incoming_log = <<[error_code |-> cd.tls_err_code, channel |-> NULL]>>
        /\ (~srv.use_tls /\ cd.state = "active") =>
               cd.incoming_log = <<[error_code |-> AWS_OP_SUCCESS, channel |-> CHANNEL]>>

\* C35 (amended): as C35, except that the error of a failed negotiation is the one the
\* channel is shut down with, and the one delivered, only when no shutdown was already
\* in progress when the result arrived; otherwise the error of that earlier shutdown
\* (AWS_ERROR_UNKNOWN if it was zero) is delivered, still with no channel.
C35_IncomingGatedByNegotiation ==
    \A c \in ConnIdx :
        LET cd == conns[c] IN
        /\ (srv.use_tls /\ cd.state = "active" /\ cd.tls = "negotiating") => cd.incoming_log = <<>>
        /\ (srv.use_tls /\ \E k \in 1..Len(cd.incoming_log) : cd.incoming_log[k].channel = CHANNEL) =>
               /\ cd.tls = "negotiated"
               /\ cd.incoming_log = <<[error_code |-> AWS_OP_SUCCESS, channel |-> CHANNEL]>>
        /\ cd.tls \in {"failed", "failed_late"} =>
               /\ cd.state \in {"shutting_down", "done"}
               /\ cd.tls = "failed" => cd.error_code = cd.tls_err_code
               /\ cd.state = "shutting_down" => cd.incoming_log = <<>>
               /\ cd.state = "done" =>
                      cd.incoming_log =
                          <<[error_code |-> IF cd.error_code # AWS_OP_SUCCESS
                                            THEN cd.error_code ELSE AWS_ERROR_UNKNOWN,
                             channel |-> NULL]>>
        /\ (~srv.use_tls /\ cd.state = "active") =>
               cd.incoming_log = <<[error_code |-> AWS_OP_SUCCESS, channel |-> CHANNEL]>>

\* the negotiation failed on a running channel and the shutdown it caused completed
C35_Witness ==
    \E c \in ConnIdx :
        /\ conns[c].tls = "failed"
        /\ conns[c].state = "done"
        /\ conns[c].incoming_log = <<[error_code |-> conns[c].tls_err_code, channel |-> NULL]>>

(* ================ properties of the TLS trampolines ==================== *)

\* C36: on both sides every trampoline gets as user_data an object of the type it
\* takes it for, calls the user's callback of its kind, when one was supplied, with
\* the user's tls_user_data, and nothing else; the user's on_negotiation_result is
\* called before the bootstrap acts on the result.
C36_TrampolinesForward ==
    \A k \in 1..Len(tramp.log) :
        LET e == tramp.log[k] IN
        /\ e.who # "wild"
        /\ e.who = "trampoline" =>
               /\ e.arg = InterpretsAs(tramp.side, e.kind)
               /\ e.kind \in tramp.supplied =>
                      /\ k < Len(tramp.log)
                      /\ tramp.log[k + 1] = [who |-> "user", kind |-> e.kind, arg |-> "tls_user_data"]
        /\ e.who = "user" => e.kind \in tramp.supplied /\ e.arg = "tls_user_data"
        /\ (e.who = "bootstrap" /\ e.kind \in tramp.supplied) =>
               k > 1 /\ tramp.log[k - 1].who = "user"

\* C37: every outgoing socket of a client request is cleaned up and freed once: never
\* twice, and none is left when the request has come to rest or the call failed; the
\* winner's socket lives as long as its channel, and the channel is destroyed by the
\* step that delivers the user's callback for its shutdown.
C37_SocketsFreedOnce ==
    /\ [](\A i \in AddrIdx : sock[i] # "double_freed")
    /\ []((Quiescent \/ ret = "ERR") => \A i \in AddrIdx : sock[i] \in {"none", "freed"})
    /\ [](\A i \in AddrIdx :
             attempt[i] \in FailedStates \cup {"late"} => sock[i] \in {"none", "freed"})
    /\ [](channel.state \in {"setup_pending", "active", "shutting_down"} =>
             channel_socket \in AddrIdx /\ sock[channel_socket] = "open")
    /\ [][(channel.state = "shutting_down" /\ channel'.state = "destroyed") =>
             /\ sock'[channel_socket] = "freed"
             /\ Len(cs'.setup_log) + Len(cs'.shutdown_log)
                    = Len(cs.setup_log) + Len(cs.shutdown_log) + 1]_vars
    /\ [][channel.state = "destroyed" => channel'.state = "destroyed"]_vars

\* one attempt won and its channel was shut down and destroyed, the other completed
\* late: both sockets are freed
C37_Witness ==
    /\ Quiescent
    /\ channel.state = "destroyed"
    /\ \E i, j \in AddrIdx : attempt[i] = "chosen" /\ attempt[j] = "late"
    /\ \A i \in AddrIdx : sock[i] = "freed"
    /\ Len(cs.shutdown_log) = 1

\* C38: when the creation of a listener fails and returns NULL, no user callback is
\* invoked for it (incoming, shutdown, destroy), and the server state is freed with
\* the bootstrap's reference count as it was before the call.
C38_FailedListenerIsSilent ==
    srv_ret = "NULL" =>
        /\ srv.destroy_log = 0
        /\ \A c \in ConnIdx : conns[c].incoming_log = <<>> /\ conns[c].shutdown_log = <<>>
        /\ srv.mem \in {"unallocated", "freed"}
        /\ srv.ref_count = 0
        /\ srv.bootstrap_ref_count = 1

\* C39: a release call that has begun eventually returns, whichever thread made it, a
\* thread of one of the group's event loops included, provided every event loop keeps
\* running its scheduled tasks.
C39_ReleaseReturns == (rel.pc # "idle") ~> (rel.pc = "returned")

\* C40: the cleanup task never reads the waiter's task data, mutex or condition
\* variable after the waiter has stopped waiting for that task (gone on to the next
\* loop or to its return), under every interleaving of the task's unlock and notify
\* with the waiter's wake-up, the spurious ones included.
C40_TaskDataOutlivesTask ==
    /\ ~rel.dangling
    /\ \A j \in LoopIdx :
          el_task[j].pc \in {"scheduled", "locked", "unlocked"} =>
              rel.i = j /\ rel.pc \in {"wait_pred", "sleeping", "waking"}

====
